---------------------------- MODULE Spec2Model ----------------------------
(***************************************************************************)
(* proto2diagram: a model of the ProtoParser (src/src/protoParser.js), the *)
(* PlantUMLGenerator and the Proto2Diagram facade (src/src/index.js) and   *)
(* the PlantUML encoder (src/src/imageEncoder/plantumlEncoder.ts and the   *)
(* JavaScript variant carried at the end of src/src/tests/runTests.js).    *)
(*                                                                         *)
(* Diagram lines, edge lines and error messages are real strings, built    *)
(* with \o exactly as the template literals of the source build them.      *)
(* The namespace tree of the external parser (protobufjs) is a tree of     *)
(* records, one shape for the node kinds.                                  *)
(***************************************************************************)
EXTENDS Integers, Sequences, FiniteSets, TLC

VARIABLES
    knownTypes,      \* ProtoParser.knownTypes      (Set of names)
    knownEnumTypes,  \* ProtoParser.knownEnumTypes  (Set of names)
    lines,           \* PlantUMLGenerator.lines     (Array of strings)
    relations,       \* PlantUMLGenerator.relations (Array of strings)
    relationSet,     \* PlantUMLGenerator.relationSet (Set of strings)
    r, i, c1, c2, c3, c4,  \* the encoder's shared variables
    options,         \* Proto2Diagram.options.plantumlEndpoint
    pending,         \* the entries the running call has still to visit
    reading,         \* the calls that wait at an await: parseProtoFile for
                     \* file.text(), generateDiagram for its instance's result
    calls,           \* number of calls made so far
    op,              \* the last operation applied and its arguments
    ret,             \* what that operation returned, or the error it threw
    prev             \* the operation before the last one, and what it returned

vars == <<knownTypes, knownEnumTypes, lines, relations, relationSet,
          r, i, c1, c2, c3, c4, options, pending, reading, calls, op, ret, prev>>

parserVars == <<knownTypes, knownEnumTypes>>
generatorVars == <<lines, relations, relationSet>>
encoderVars == <<r, i, c1, c2, c3, c4>>

-----------------------------------------------------------------------------
(* CONFIG (src/unnamed/part_002)                                           *)

PLANTUML_ENDPOINT == "http://www.plantuml.com/plantuml/img/"
WELL_KNOWN_TYPE_PREFIX == "google.protobuf."
COMPOSITION == "--*"
AGGREGATION == "--o"
ASSOCIATION == "-->"
OPTIONAL == "\"0..1\""
REQUIRED == "\"1\""
MULTIPLE == "\"0..*\""

-----------------------------------------------------------------------------
(* JavaScript values that cross an API boundary where the source tests     *)
(* them for null, type or truthiness.                                      *)

Null == [t |-> "null"]
Undefined == [t |-> "undefined"]
Str(s) == [t |-> "string", v |-> s]
Num(n) == [t |-> "number", n |-> n]
Obj(o) == [t |-> "object", o |-> o]

\* ToBoolean
Truthy(x) ==
    CASE x.t = "null" -> FALSE
      [] x.t = "undefined" -> FALSE
      [] x.t = "string" -> x.v # ""
      [] x.t = "number" -> x.n # 0
      [] OTHER -> TRUE

\* typeof x === "string"
IsString(x) == x.t = "string"

\* a returned value / a thrown Error(message)
Return(v) == [ok |-> TRUE, v |-> v]
\* a call that returned the object o
ReturnObject(o) == [ok |-> TRUE, o |-> o]
Throw(msg) == [ok |-> FALSE, message |-> msg]

-----------------------------------------------------------------------------
(* Characters and strings                                                  *)

LowerCase == <<"a","b","c","d","e","f","g","h","i","j","k","l","m",
               "n","o","p","q","r","s","t","u","v","w","x","y","z">>
UpperCase == <<"A","B","C","D","E","F","G","H","I","J","K","L","M",
               "N","O","P","Q","R","S","T","U","V","W","X","Y","Z">>
Digits == <<"0","1","2","3","4","5","6","7","8","9">>

IndexOf(seq, x) ==
    IF \E k \in 1..Len(seq) : seq[k] = x
    THEN CHOOSE k \in 1..Len(seq) : seq[k] = x
    ELSE 0

\* String.prototype.toUpperCase on one character
ToUpperCase(ch) ==
    IF IndexOf(LowerCase, ch) > 0 THEN UpperCase[IndexOf(LowerCase, ch)] ELSE ch

\* Array.prototype.join: the strings of parts with sep between them
RECURSIVE Join(_, _)
Join(parts, sep) ==
    IF Len(parts) = 0 THEN ""
    ELSE IF Len(parts) = 1 THEN parts[1]
    ELSE parts[1] \o sep \o Join(Tail(parts), sep)

\* the character at position k of a string (1-based)
CharAt(str, k) == SubSeq(str, k, k)

\* String.prototype.startsWith
StartsWith(str, prefix) ==
    Len(str) >= Len(prefix) /\ SubSeq(str, 1, Len(prefix)) = prefix

\* String.prototype.toLowerCase
ToLowerChar(ch) ==
    IF IndexOf(UpperCase, ch) > 0 THEN LowerCase[IndexOf(UpperCase, ch)] ELSE ch

RECURSIVE ToLowerCase(_)
ToLowerCase(str) ==
    IF Len(str) = 0 THEN ""
    ELSE ToLowerChar(CharAt(str, 1)) \o ToLowerCase(SubSeq(str, 2, Len(str)))

\* the white space beyond ASCII: U+000B line tabulation, U+00A0 no-break
\* space, U+FEFF byte order mark, U+1680 ogham space mark
LineTabulation == ""
NoBreakSpace == " "
ByteOrderMark == "﻿"
OghamSpaceMark == " "

\* String.prototype.trim strips WhiteSpace and LineTerminator of ECMAScript:
\* these nine, and U+2000..U+200A, U+2028, U+2029, U+202F, U+205F, U+3000,
\* which a string of a module cannot be written with
WhiteSpace ==
    {" ", "\t", "\n", "\r", "\f",
     LineTabulation, NoBreakSpace, ByteOrderMark, OghamSpaceMark}

RECURSIVE TrimStart(_)
TrimStart(str) ==
    IF Len(str) > 0 /\ CharAt(str, 1) \in WhiteSpace
    THEN TrimStart(SubSeq(str, 2, Len(str)))
    ELSE str

RECURSIVE TrimEnd(_)
TrimEnd(str) ==
    IF Len(str) > 0 /\ CharAt(str, Len(str)) \in WhiteSpace
    THEN TrimEnd(SubSeq(str, 1, Len(str) - 1))
    ELSE str

Trim(str) == TrimEnd(TrimStart(str))

\* String.prototype.split on a one-character separator
RECURSIVE SplitFrom(_, _, _, _)
SplitFrom(str, sep, k, start) ==
    IF k > Len(str) THEN <<SubSeq(str, start, Len(str))>>
    ELSE IF CharAt(str, k) = sep
         THEN <<SubSeq(str, start, k - 1)>> \o SplitFrom(str, sep, k + 1, k + 1)
    ELSE SplitFrom(str, sep, k + 1, start)

Split(str, sep) == SplitFrom(str, sep, 1, 1)

-----------------------------------------------------------------------------
(* The namespace tree of the external parser.  One record shape for every  *)
(* node: kind is "ns" (a plain Namespace), "msg" (protobuf.Type), "enum"   *)
(* (protobuf.Enum), "svc" (protobuf.Service) or "null" (a null entry of a  *)
(* nested map).  key is the node's key in its parent's nested map; nested  *)
(* holds the children in insertion order, <<>> standing for an undefined   *)
(* nested map.  A name of "" stands for a missing name, a type of "" for a *)
(* missing type.                                                           *)

Node(kind, key, name, nested, fieldsArray, oneofs, values, hasValues, methods, hasMethods) ==
    [kind |-> kind, key |-> key, name |-> name, nested |-> nested,
     fieldsArray |-> fieldsArray, oneofs |-> oneofs,
     values |-> values, hasValues |-> hasValues,
     methods |-> methods, hasMethods |-> hasMethods]

Namespace(name, nested) == Node("ns", name, name, nested, <<>>, <<>>, <<>>, FALSE, <<>>, FALSE)
Type(name, fieldsArray, oneofs, nested) ==
    Node("msg", name, name, nested, fieldsArray, oneofs, <<>>, FALSE, <<>>, FALSE)
Enum(name, values) == Node("enum", name, name, <<>>, <<>>, <<>>, values, TRUE, <<>>, FALSE)
Service(name, methods) == Node("svc", name, name, <<>>, <<>>, <<>>, <<>>, FALSE, methods, TRUE)
NullEntry(key) == Node("null", key, "", <<>>, <<>>, <<>>, <<>>, FALSE, <<>>, FALSE)
Root(nested) == Namespace("", nested)

\* field.name of a field that has none: undefined, which is not the empty
\* string "" wherever the name goes into a template literal
NoName == "<undefined>"

\* a protobuf.Field as the source reads it: name (NoName for none), type, map,
\* repeated, rule, partOf (the oneof's name, "" for none), keyType, reserved
Field(name, type, map, repeated, rule, partOf, keyType, reserved) ==
    [name |-> name, type |-> type, map |-> map, repeated |-> repeated,
     rule |-> rule, partOf |-> partOf, keyType |-> keyType, reserved |-> reserved]

OneOf(name, fieldsArray) == [name |-> name, fieldsArray |-> fieldsArray]

Method(name, requestType, responseType) ==
    [name |-> name, requestType |-> requestType, responseType |-> responseType]

-----------------------------------------------------------------------------
(* ProtoParser (src/src/protoParser.js).  The operators that change the    *)
(* parser thread its state as a record ps = [kt, ket, err]: knownTypes,    *)
(* knownEnumTypes and the message of the error thrown ("" while none is).  *)

ParserState(kt, ket) == [kt |-> kt, ket |-> ket, err |-> ""]

generateEnumName(enumName, parentName) ==
    IF parentName # "" THEN parentName \o "_" \o enumName ELSE enumName

collectEnumType(enumType, parentName, key, ps) ==
    IF enumType.name = ""
    THEN [ps EXCEPT !.err = "Enum at key '" \o key \o "' has no name"]
    ELSE LET originalName == enumType.name
             prefixedName == generateEnumName(enumType.name, parentName)
             ps1 == [ps EXCEPT !.kt = @ \cup {originalName},
                               !.ket = @ \cup {originalName}]
         IN  IF parentName # ""
             THEN [ps1 EXCEPT !.kt = @ \cup {prefixedName},
                              !.ket = @ \cup {prefixedName}]
             ELSE ps1

RECURSIVE collectTypes(_, _, _)
RECURSIVE collectTypesLoop(_, _, _, _)

\* collectMessageType that leaves the message's nested types alone
collectMessageType_NoNested(messageType, key, ps) ==
    IF messageType.name = ""
    THEN [ps EXCEPT !.err = "Type at key '" \o key \o "' has no name"]
    ELSE [ps EXCEPT !.kt = @ \cup {messageType.name}]

collectMessageType(messageType, key, ps) ==
    IF messageType.name = ""
    THEN [ps EXCEPT !.err = "Type at key '" \o key \o "' has no name"]
    ELSE IF messageType.nested # <<>>
    THEN collectTypes(messageType, messageType.name,
                      [ps EXCEPT !.kt = @ \cup {messageType.name}])
    ELSE [ps EXCEPT !.kt = @ \cup {messageType.name}]

\* the body of the try block of collectTypes, for one entry of the nested map
collectEntry(value, parentName, ps) ==
    IF value.kind = "null" THEN ps
    ELSE IF value.kind = "msg" THEN collectMessageType(value, value.key, ps)
    ELSE IF value.kind = "enum" THEN collectEnumType(value, parentName, value.key, ps)
    ELSE IF value.nested # <<>> THEN collectTypes(value, parentName, ps)
    ELSE ps

\* the catch block of collectTypes
collectCatch(key, ps) ==
    IF ps.err # ""
    THEN [ps EXCEPT !.err = "Failed to collect types from '" \o key \o "': " \o @]
    ELSE ps

\* the for loop of collectTypes, from entry k of the nested map on; a throw
\* ends the loop
collectTypesLoop(nested, k, parentName, ps) ==
    IF k > Len(nested) \/ ps.err # "" THEN ps
    ELSE collectTypesLoop(nested, k + 1, parentName,
             collectCatch(nested[k].key, collectEntry(nested[k], parentName, ps)))

collectTypes(ns, parentName, ps) == collectTypesLoop(ns.nested, 1, parentName, ps)

\* extractFieldType: the field's type, or the error thrown for a missing one
extractFieldType(field, parentTypeName) ==
    IF field.type = ""
    THEN Throw("Field " \o (IF field.name \notin {"", NoName} THEN field.name ELSE "unknown")
               \o " has no type defined")
    ELSE Return(field.type)

isWellKnownType(fieldType) ==
    fieldType # "" /\ StartsWith(fieldType, WELL_KNOWN_TYPE_PREFIX)

\* str.replace(/_([a-z])/g, (match, letter) => letter.toUpperCase())
RECURSIVE ReplaceUnderscoreLower(_)
ReplaceUnderscoreLower(str) ==
    IF Len(str) = 0 THEN ""
    ELSE IF Len(str) >= 2 /\ CharAt(str, 1) = "_" /\ IndexOf(LowerCase, CharAt(str, 2)) > 0
         THEN ToUpperCase(CharAt(str, 2)) \o ReplaceUnderscoreLower(SubSeq(str, 3, Len(str)))
    ELSE CharAt(str, 1) \o ReplaceUnderscoreLower(SubSeq(str, 2, Len(str)))

\* toCamelCase with a pattern that lacks the g flag: the first match only
toCamelCase_FirstOnly(str) ==
    LET matches == {p \in 1..(Len(str) - 1) :
                       /\ CharAt(str, p) = "_"
                       /\ IndexOf(LowerCase, CharAt(str, p + 1)) > 0}
        first == CHOOSE p \in matches : \A q \in matches : p <= q
    IN  IF matches = {} THEN str
        ELSE SubSeq(str, 1, first - 1) \o ToUpperCase(CharAt(str, first + 1))
                 \o SubSeq(str, first + 2, Len(str))

\* if (!str || typeof str !== "string") return str; return str.replace(...)
toCamelCase(str) ==
    IF str = "" \/ str = NoName THEN str ELSE ReplaceUnderscoreLower(str)

\* resolveTypeName without the test of the composite name
resolveTypeName_NoComposite(fieldType, parentTypeName, kt) ==
    IF fieldType = ""
    THEN Throw("Field type must be a non-empty string")
    ELSE Return(fieldType)

resolveTypeName(fieldType, parentTypeName, kt) ==
    IF fieldType = ""
    THEN Throw("Field type must be a non-empty string")
    ELSE IF fieldType \in kt THEN Return(fieldType)
    ELSE IF parentTypeName # "" /\ (parentTypeName \o "_" \o fieldType) \in kt
         THEN Return(parentTypeName \o "_" \o fieldType)
    ELSE Return(fieldType)

isOptionalField(field) == field.rule = "optional" \/ field.partOf # ""

\* getCardinality with the optional test made before the map/repeated test
getCardinality_OptionalFirst(field) ==
    IF ~Truthy(field) THEN REQUIRED
    ELSE IF isOptionalField(field.o) THEN OPTIONAL
    ELSE IF field.o.map \/ field.o.repeated THEN MULTIPLE
    ELSE REQUIRED

\* field is a JavaScript value: Null or Obj(a Field)
getCardinality(field) ==
    IF ~Truthy(field) THEN REQUIRED
    ELSE IF field.o.map \/ field.o.repeated THEN MULTIPLE
    ELSE IF isOptionalField(field.o) THEN OPTIONAL
    ELSE REQUIRED

\* resolvedType is a JavaScript value: Null, Str(name) or Num(n)
getRelationshipType(resolvedType, ket) ==
    IF ~Truthy(resolvedType) \/ ~IsString(resolvedType) THEN COMPOSITION
    ELSE IF resolvedType.v \in ket THEN COMPOSITION
    ELSE AGGREGATION

\* What protobuf.parse(content) does, which is the external parser's
\* business: it throws, or returns a root (Null for none) and a package
\* (Undefined for none).
ParseThrows(msg) == [ok |-> FALSE, message |-> msg, root |-> Null, package |-> Undefined]
Parsed(root, package) == [ok |-> TRUE, message |-> "", root |-> root, package |-> package]

\* this.knownTypes.clear(); this.knownEnumTypes.clear();
ClearKnownTypes(ps0) == ParserState({}, {})

\* the end of parseProtoString: ps1 is the parser's state after collectTypes
parseProtoStringReturn(parsed, ps1) ==
    IF ps1.err # ""
    THEN [ps |-> [ps1 EXCEPT !.err = ""],
          ret |-> Throw("Failed to collect protobuf types: " \o ps1.err)]
    ELSE [ps |-> ps1,
          ret |-> Return([root |-> parsed.root,
                          knownTypes |-> ps1.kt,
                          packageName |-> IF Truthy(parsed.package)
                                          THEN parsed.package ELSE Null])]

\* content is a JavaScript value, parsed what protobuf.parse makes of it, ps0
\* the parser's state before the call.  The result is the parser's state
\* after the call and what the call returned or threw.
parseProtoString(content, parsed, ps0) ==
    IF ~Truthy(content) \/ ~IsString(content) \/ Len(Trim(content.v)) = 0
    THEN [ps |-> ps0, ret |-> Throw("Proto content must be a non-empty string")]
    ELSE IF ~parsed.ok
    THEN [ps |-> ps0, ret |-> Throw("Failed to parse protobuf content: " \o parsed.message)]
    ELSE IF ~Truthy(parsed.root)
    THEN [ps |-> ps0, ret |-> Throw("Parsed protobuf has no root namespace")]
    ELSE parseProtoStringReturn(parsed,
             collectTypes(parsed.root.o, "", ClearKnownTypes(ps0)))

\* A file handed to parseProtoFile: whether it has a text() method, and what
\* the promise of file.text() does: it is rejected with a message, or it
\* resolves to a content, which comes with what protobuf.parse makes of it.
FileObject(hasText, ok, message, content) ==
    [hasText |-> hasText, ok |-> ok, message |-> message, content |-> content]

\* async parseProtoFile(file) up to its await: file is Null or Obj(a
\* FileObject).  A throw rejects the promise the call returns; otherwise the
\* call waits for file.text() and has changed nothing yet.
parseProtoFileCall(file) ==
    IF ~Truthy(file) THEN Throw("File object cannot be null or undefined")
    ELSE IF ~file.o.hasText THEN Throw("File object must have a text() method")
    ELSE ReturnObject([promise |-> "pending"])

\* parseProtoFile after its await: the catch block, or parseProtoString of
\* the content on the parser as it is by then
parseProtoFileResume(file, ps0) ==
    IF ~file.o.ok
    THEN [ps |-> ps0, ret |-> Throw("Failed to read file content: " \o file.o.message)]
    ELSE parseProtoString(file.o.content.protoContent, file.o.content.parsed, ps0)

-----------------------------------------------------------------------------
(* PlantUMLGenerator (src/src/index.js, second half).  The operators that  *)
(* emit thread the generator's state as a record                           *)
(* gs = [lines, relations, relationSet, err]; err is the message of the    *)
(* error thrown ("" while none is): once it is set the remaining steps of  *)
(* the call are skipped, as a throw skips them, and what was pushed before *)
(* the throw stays in the state.  kt and ket are the parser's knownTypes   *)
(* and knownEnumTypes, which the generator reads through this.parser.      *)

GeneratorState(ls, rels, rset) ==
    [lines |-> ls, relations |-> rels, relationSet |-> rset, err |-> ""]

\* this.lines.push(line)
PushLine(gs, line) ==
    IF gs.err # "" THEN gs ELSE [gs EXCEPT !.lines = Append(@, line)]

\* throw new Error(msg)
Raise(gs, msg) == [gs EXCEPT !.err = msg]

\* the catch blocks that rethrow with a prefix
Rethrow(gs, prefix) == IF gs.err # "" THEN [gs EXCEPT !.err = prefix \o @] ELSE gs

\* AddRelation without the test of relationSet
AddRelation_NoCheck(gs, relationshipString) ==
    IF gs.err # "" THEN gs
    ELSE [gs EXCEPT !.relationSet = @ \cup {relationshipString},
                    !.relations = Append(@, relationshipString)]

\* if (!this.relationSet.has(s)) { this.relationSet.add(s); this.relations.push(s); }
AddRelation(gs, relationshipString) ==
    IF gs.err # "" THEN gs
    ELSE IF relationshipString \notin gs.relationSet
    THEN [gs EXCEPT !.relationSet = @ \cup {relationshipString},
                    !.relations = Append(@, relationshipString)]
    ELSE gs

\* the edge string without the cardinality
RelationshipString_NoCardinality(parentTypeName, relationshipType, cardinality, resolvedType) ==
    parentTypeName \o " " \o relationshipType \o " " \o resolvedType

\* `${parentTypeName} ${relationshipType} ${cardinality} ${resolvedType}`
RelationshipString(parentTypeName, relationshipType, cardinality, resolvedType) ==
    parentTypeName \o " " \o relationshipType \o " " \o cardinality \o " " \o resolvedType

\* createRelationship once resolveTypeName has returned or thrown
createRelationshipTo(resolved, field, parentTypeName, kt, ket, gs) ==
    IF ~resolved.ok THEN Raise(gs, resolved.message)
    ELSE IF resolved.v \in kt
    THEN AddRelation(gs,
             RelationshipString(parentTypeName,
                                getRelationshipType(Str(resolved.v), ket),
                                getCardinality(Obj(field)),
                                resolved.v))
    ELSE gs

createRelationship(field, fieldType, parentTypeName, kt, ket, gs) ==
    createRelationshipTo(resolveTypeName(fieldType, parentTypeName, kt),
                         field, parentTypeName, kt, ket, gs)

\* the displayType of processMessageField
MapDisplay(field, fieldType) ==
    IF field.map
    THEN "map<" \o (IF field.keyType # "" THEN field.keyType ELSE "string")
             \o ", " \o fieldType \o ">"
    ELSE fieldType

RepeatedDisplay(field, displayType) ==
    IF field.repeated /\ ~field.map THEN displayType \o " [ ]" ELSE displayType

OptionalDisplay(field, displayType) ==
    IF isOptionalField(field) THEN displayType \o " ?" ELSE displayType

DisplayType(field, fieldType) ==
    OptionalDisplay(field, RepeatedDisplay(field, MapDisplay(field, fieldType)))

\* `${fieldName}`: undefined reads "undefined"
InTemplate(fieldName) == IF fieldName = NoName THEN "undefined" ELSE fieldName

\* `  ${fieldName} : ${displayType}`
FieldLine(field, fieldType) ==
    "  " \o InTemplate(toCamelCase(field.name)) \o " : " \o DisplayType(field, fieldType)

\* processMessageFieldOf that leaves a field of a well-known type out
processMessageFieldOf_SkipWellKnown(extracted, field, parentTypeName, kt, ket, gs) ==
    IF ~extracted.ok THEN Raise(gs, extracted.message)
    ELSE IF ~isWellKnownType(extracted.v)
    THEN createRelationship(field, extracted.v, parentTypeName, kt, ket,
                            PushLine(gs, FieldLine(field, extracted.v)))
    ELSE gs

\* processMessageField once extractFieldType has returned or thrown
processMessageFieldOf(extracted, field, parentTypeName, kt, ket, gs) ==
    IF ~extracted.ok THEN Raise(gs, extracted.message)
    ELSE IF ~isWellKnownType(extracted.v)
    THEN createRelationship(field, extracted.v, parentTypeName, kt, ket,
                            PushLine(gs, FieldLine(field, extracted.v)))
    ELSE PushLine(gs, FieldLine(field, extracted.v))

processMessageField(field, parentTypeName, kt, ket, gs) ==
    processMessageFieldOf(extractFieldType(field, parentTypeName),
                          field, parentTypeName, kt, ket, gs)

\* the forEach over the non-reserved fields of processMessageType, from field
\* k on; a throw ends it
RECURSIVE processFields(_, _, _, _, _, _)
processFields(fields, k, typeName, kt, ket, gs) ==
    IF k > Len(fields) \/ gs.err # "" THEN gs
    ELSE IF fields[k].reserved THEN processFields(fields, k + 1, typeName, kt, ket, gs)
    ELSE processFields(fields, k + 1, typeName, kt, ket,
             Rethrow(processMessageField(fields[k], typeName, kt, ket, gs),
                     "Failed to process field in " \o typeName \o ": "))

\* an element of the array that join() joins: undefined gives no characters
InJoin(fieldName) == IF fieldName = NoName THEN "" ELSE fieldName

\* oneof.fieldsArray.map(field => toCamelCase(field.name)), as join() reads it
CamelNames(fieldsArray) ==
    [k \in 1..Len(fieldsArray) |-> InJoin(toCamelCase(fieldsArray[k].name))]

\* OneofNote with the test fieldsArray.length > 0
OneofNote_AnyGroup(oneof, typeName, gs) ==
    IF Len(oneof.fieldsArray) > 0
    THEN PushLine(PushLine(PushLine(gs,
             "note right of " \o typeName),
             "  Only one of " \o Join(CamelNames(oneof.fieldsArray), " or ") \o " is set"),
             "end note")
    ELSE gs

\* the three lines of the note of one oneof group
OneofNote(oneof, typeName, gs) ==
    IF Len(oneof.fieldsArray) > 1
    THEN PushLine(PushLine(PushLine(gs,
             "note right of " \o typeName),
             "  Only one of " \o Join(CamelNames(oneof.fieldsArray), " or ") \o " is set"),
             "end note")
    ELSE gs

RECURSIVE processOneofNotesLoop(_, _, _, _)
processOneofNotesLoop(oneofs, k, typeName, gs) ==
    IF k > Len(oneofs) THEN gs
    ELSE processOneofNotesLoop(oneofs, k + 1, typeName, OneofNote(oneofs[k], typeName, gs))

processOneofNotes(messageType, gs) ==
    IF gs.err # "" \/ Len(messageType.oneofs) = 0 THEN gs
    ELSE processOneofNotesLoop(messageType.oneofs, 1, messageType.name, gs)

RECURSIVE PushValues(_, _, _)
PushValues(values, k, gs) ==
    IF k > Len(values) THEN gs
    ELSE PushValues(values, k + 1,
             IF values[k] # "" THEN PushLine(gs, "  " \o values[k]) ELSE gs)

processEnumType(enumType, parentName, gs) ==
    IF enumType.name = "" THEN Raise(gs, "Enum type must have a valid name")
    ELSE IF ~enumType.hasValues
         THEN Raise(gs, "Enum " \o enumType.name \o " must have valid values")
    ELSE PushLine(PushValues(enumType.values, 1,
                      PushLine(gs, "enum " \o enumType.name \o " {")),
                  "}")

\* method.requestType || 'Unknown'
OrUnknown(typeName) == IF typeName # "" THEN typeName ELSE "Unknown"

\* `${serviceType.name} ${CONFIG.UML.RELATIONSHIPS.ASSOCIATION} ${type}`
ServiceRelation(serviceName, typeName) == serviceName \o " " \o ASSOCIATION \o " " \o typeName

\* processMethod without the edge to the response type
processMethod_RequestOnly(method, serviceName, gs) ==
    IF method.name = "" THEN Raise(gs, "Invalid method in service " \o serviceName)
    ELSE AddRelation(
             PushLine(gs, "  " \o method.name \o "(" \o OrUnknown(method.requestType)
                              \o ") : " \o OrUnknown(method.responseType)),
             ServiceRelation(serviceName, OrUnknown(method.requestType)))

\* the body of the forEach of processServiceType, for one method
processMethod(method, serviceName, gs) ==
    IF method.name = "" THEN Raise(gs, "Invalid method in service " \o serviceName)
    ELSE AddRelation(
             AddRelation(
                 PushLine(gs, "  " \o method.name \o "(" \o OrUnknown(method.requestType)
                                  \o ") : " \o OrUnknown(method.responseType)),
                 ServiceRelation(serviceName, OrUnknown(method.requestType))),
             ServiceRelation(serviceName, OrUnknown(method.responseType)))

\* the forEach over the methods of processServiceType, from method k on; a
\* throw ends it
RECURSIVE processMethods(_, _, _, _)
processMethods(methods, k, serviceName, gs) ==
    IF k > Len(methods) \/ gs.err # "" THEN gs
    ELSE processMethods(methods, k + 1, serviceName,
                        processMethod(methods[k], serviceName, gs))

processServiceType(serviceType, gs) ==
    IF serviceType.name = "" THEN Raise(gs, "Service type must have a valid name")
    ELSE IF ~serviceType.hasMethods
         THEN Raise(gs, "stereotype " \o serviceType.name \o " must have valid methods")
    ELSE PushLine(processMethods(serviceType.methods, 1, serviceType.name,
                      PushLine(gs, "stereotype " \o serviceType.name \o " {")),
                  "}")

\* Object.values(nested).some(value => value instanceof protobuf.Enum)
HasNestedEnum(node) == \E k \in 1..Len(node.nested) : node.nested[k].kind = "enum"

\* hasNestedTypes that is true for any nested type
HasNestedTypes_AnyNested(messageType) == messageType.nested # <<>>

\* const hasNestedTypes = messageType.nested && ...some(... Enum)
HasNestedTypes(messageType) == messageType.nested # <<>> /\ HasNestedEnum(messageType)

RECURSIVE processNamespace(_, _, _, _, _)
RECURSIVE processNamespaceLoop(_, _, _, _, _, _)

\* if (hasNestedTypes) this.lines.push(`component "${messageType.name} Types" {`)
OpenComponent(messageType, gs) ==
    IF HasNestedTypes(messageType)
    THEN PushLine(gs, "component \"" \o messageType.name \o " Types\" {")
    ELSE gs

\* if (messageType.nested) this.processNamespace(messageType, "")
ProcessNested(messageType, kt, ket, gs) ==
    IF gs.err # "" THEN gs
    ELSE IF messageType.nested # <<>> THEN processNamespace(messageType, "", kt, ket, gs)
    ELSE gs

\* a closing line for every message that has nested types of any kind
CloseComponent_AnyNested(messageType, gs) ==
    IF messageType.nested # <<>> THEN PushLine(gs, "}") ELSE gs

\* if (hasNestedTypes) this.lines.push("}")
CloseComponent(messageType, gs) ==
    IF HasNestedTypes(messageType) THEN PushLine(gs, "}") ELSE gs

processMessageType(messageType, kt, ket, gs) ==
    IF messageType.name = "" THEN Raise(gs, "Message type must have a valid name")
    ELSE CloseComponent(messageType,
           ProcessNested(messageType, kt, ket,
             processOneofNotes(messageType,
               PushLine(
                 processFields(messageType.fieldsArray, 1, messageType.name, kt, ket,
                   PushLine(OpenComponent(messageType, gs),
                            "object " \o messageType.name \o " {")),
                 "}"))))

\* the body of the try block of processNamespace, for one entry of the nested map
processEntry(value, parentName, kt, ket, gs) ==
    IF value.kind = "msg" THEN processMessageType(value, kt, ket, gs)
    ELSE IF value.kind = "enum" THEN processEnumType(value, parentName, gs)
    ELSE IF value.kind = "svc" THEN processServiceType(value, gs)
    ELSE IF value.kind # "null" /\ value.nested # <<>>
         THEN processNamespace(value, parentName, kt, ket, gs)
    ELSE gs

\* the for loop of processNamespace, from entry k of the nested map on; a
\* throw ends it
processNamespaceLoop(nested, k, parentName, kt, ket, gs) ==
    IF k > Len(nested) \/ gs.err # "" THEN gs
    ELSE processNamespaceLoop(nested, k + 1, parentName, kt, ket,
             Rethrow(processEntry(nested[k], parentName, kt, ket, gs),
                     "Failed to process " \o nested[k].key \o ": "))

processNamespace(ns, parentName, kt, ket, gs) ==
    processNamespaceLoop(ns.nested, 1, parentName, kt, ket, gs)

-----------------------------------------------------------------------------
(* Package layout (src/src/index.js, analyzePackageStructure and below)    *)

\* value instanceof protobuf.Type || ... Enum || ... Service, for some child
HasDirectContent(ns) ==
    \E k \in 1..Len(ns.nested) : ns.nested[k].kind \in {"msg", "enum", "svc"}

RECURSIVE countContentAtLevels(_)
RECURSIVE SumContentLevels(_, _)

\* the forEach of traverse: the levels counted below the children from k on
SumContentLevels(nested, k) ==
    IF k > Len(nested) THEN 0
    ELSE (IF nested[k].kind \notin {"null", "msg"} /\ nested[k].nested # <<>>
          THEN countContentAtLevels(nested[k]) ELSE 0)
         + SumContentLevels(nested, k + 1)

countContentAtLevels(ns) ==
    (IF HasDirectContent(ns) THEN 1 ELSE 0) + SumContentLevels(ns.nested, 1)

MeaningfulNames ==
    {"api", "service", "event", "model", "dto", "proto", "message", "client", "server"}

\* shouldUsePackageBlock with the test for a path of one or two parts first
shouldUsePackageBlock_ShortFirst(packageParts, contentLevels, targetNamespace) ==
    IF Len(packageParts) <= 2 THEN FALSE
    ELSE IF contentLevels > 1 THEN TRUE
    ELSE LET lastPart == packageParts[Len(packageParts)]
         IN  IF ToLowerCase(lastPart) \in MeaningfulNames THEN TRUE
             ELSE IF Len(packageParts) >= 3 /\ Len(packageParts) <= 6 THEN TRUE
             ELSE IF Len(packageParts) > 8 THEN FALSE
             ELSE TRUE

shouldUsePackageBlock(packageParts, contentLevels, targetNamespace) ==
    IF contentLevels > 1 THEN TRUE
    ELSE LET lastPart == packageParts[Len(packageParts)]
         IN  IF ToLowerCase(lastPart) \in MeaningfulNames THEN TRUE
             ELSE IF Len(packageParts) >= 3 /\ Len(packageParts) <= 6 THEN TRUE
             ELSE IF Len(packageParts) <= 2 THEN FALSE
             ELSE IF Len(packageParts) > 8 THEN FALSE
             ELSE TRUE

MeaningfulNamesForDisplay ==
    {"api", "service", "event", "model", "dto", "proto", "message"}

Max(a, b) == IF a >= b THEN a ELSE b

getOptimalPackageName(packageParts, shouldUsePackage) ==
    IF ~shouldUsePackage THEN ""
    ELSE IF Len(packageParts) <= 6 THEN Join(packageParts, ".")
    ELSE LET lastPart == packageParts[Len(packageParts)]
         IN  IF ToLowerCase(lastPart) \in MeaningfulNamesForDisplay
             THEN LET startIdx == Max(0, Len(packageParts) - 4)
                  IN  Join(SubSeq(packageParts, startIdx + 1, Len(packageParts)), ".")
             ELSE IF Len(packageParts) > 8
                  THEN packageParts[1] \o "..."
                       \o Join(SubSeq(packageParts, Len(packageParts) - 2, Len(packageParts)), ".")
             ELSE Join(packageParts, ".")

RECURSIVE findContentNamespace(_)
RECURSIVE findContentLoop(_, _)

\* the for loop of findContentNamespace: the namespace found deeper below a
\* child from k on, or ns itself as the fallback
findContentLoop(ns, k) ==
    IF k > Len(ns.nested) THEN ns
    ELSE LET value == ns.nested[k]
         IN  IF value.kind # "null" /\ value.nested # <<>>
             THEN LET found == findContentNamespace(value)
                  IN  IF found # value THEN found ELSE findContentLoop(ns, k + 1)
             ELSE findContentLoop(ns, k + 1)

findContentNamespace(ns) ==
    IF ns.nested = <<>> THEN ns
    ELSE IF HasDirectContent(ns) THEN ns
    ELSE findContentLoop(ns, 1)

\* the result of analyzePackageStructure
PackageInfo(shouldUsePackage, packageParts, targetNamespace) ==
    [shouldUsePackage |-> shouldUsePackage,
     displayName |-> getOptimalPackageName(packageParts, shouldUsePackage),
     targetNamespace |-> targetNamespace]

\* analyzePackageStructure once its three inputs are computed
analyzePackageParts(targetNamespace, packageParts, contentLevels) ==
    PackageInfo(shouldUsePackageBlock(packageParts, contentLevels, targetNamespace),
                packageParts, targetNamespace)

analyzePackageStructure(root, packageName) ==
    analyzePackageParts(findContentNamespace(root), Split(packageName, "."),
                        countContentAtLevels(root))

RECURSIVE collectAllContent(_)
RECURSIVE collectAllContentLoop(_, _, _)

\* the forEach of collectAllContent, from child k on
collectAllContentLoop(nested, k, content) ==
    IF k > Len(nested) THEN content
    ELSE LET value == nested[k]
             next ==
                 IF value.kind = "msg"
                 THEN [content EXCEPT !.messages = Append(@, value)]
                 ELSE IF value.kind = "enum"
                 THEN [content EXCEPT !.enums = Append(@, value)]
                 ELSE IF value.kind = "svc"
                 THEN [content EXCEPT !.services = Append(@, value)]
                 ELSE IF value.kind # "null" /\ value.nested # <<>>
                 THEN LET nestedContent == collectAllContent(value)
                      IN  [messages |-> content.messages \o nestedContent.messages,
                           enums |-> content.enums \o nestedContent.enums,
                           services |-> content.services \o nestedContent.services]
                 ELSE content
         IN  collectAllContentLoop(nested, k + 1, next)

collectAllContent(ns) ==
    collectAllContentLoop(ns.nested, 1,
        [messages |-> <<>>, enums |-> <<>>, services |-> <<>>])

RECURSIVE ForEachMessage(_, _, _, _, _)
ForEachMessage(messages, k, kt, ket, gs) ==
    IF k > Len(messages) \/ gs.err # "" THEN gs
    ELSE ForEachMessage(messages, k + 1, kt, ket, processMessageType(messages[k], kt, ket, gs))

RECURSIVE ForEachEnum(_, _, _)
ForEachEnum(enums, k, gs) ==
    IF k > Len(enums) \/ gs.err # "" THEN gs
    ELSE ForEachEnum(enums, k + 1, processEnumType(enums[k], "", gs))

RECURSIVE ForEachService(_, _, _)
ForEachService(services, k, gs) ==
    IF k > Len(services) \/ gs.err # "" THEN gs
    ELSE ForEachService(services, k + 1, processServiceType(services[k], gs))

processNamespaceFlat(ns, kt, ket, gs) ==
    LET allContent == collectAllContent(ns)
    IN  ForEachService(allContent.services, 1,
            ForEachEnum(allContent.enums, 1,
                ForEachMessage(allContent.messages, 1, kt, ket, gs)))

-----------------------------------------------------------------------------
(* generateFromRoot (src/src/index.js)                                     *)

HeaderLines ==
    <<"@startuml", "!pragma useIntermediatePackages false",
      "skinparam componentStyle rectangle">>

\* the reset of generateFromRoot without the new relationSet
ResetGenerator_KeepSet(gs0) == GeneratorState(HeaderLines, <<>>, gs0.relationSet)

\* this.lines = [...]; this.relations = []; this.relationSet = new Set();
ResetGenerator(gs0) == GeneratorState(HeaderLines, <<>>, {})

\* the branch of generateFromRoot for a package name
EmitInPackage(packageInfo, kt, ket, gs) ==
    IF packageInfo.shouldUsePackage
    THEN PushLine(
             processNamespaceFlat(packageInfo.targetNamespace, kt, ket,
                 PushLine(gs, "package \"" \o packageInfo.displayName \o "\" {")),
             "}")
    ELSE processNamespace(packageInfo.targetNamespace, "", kt, ket, gs)

\* the try block of generateFromRoot
EmitContent(root, packageName, kt, ket, gs) ==
    IF Truthy(packageName) /\ Trim(packageName.v) # ""
    THEN EmitInPackage(analyzePackageStructure(root, packageName.v), kt, ket, gs)
    ELSE processNamespace(root, "", kt, ket, gs)

\* the end of generateFromRoot with the end marker pushed before the edges
EmitRelations_EndFirst(gs) ==
    [gs EXCEPT !.lines = Append(@, "@enduml") \o gs.relations]

\* this.lines.push(...this.relations); this.lines.push("@enduml");
EmitRelations(gs) ==
    [gs EXCEPT !.lines = Append(@ \o gs.relations, "@enduml")]

\* return this.lines.join("\n")
ReturnLines(gs) == [gs |-> gs, ret |-> Return(Join(gs.lines, "\n"))]

\* generateFromRoot after its try block
generateFromRootEnd(gs) ==
    IF gs.err # ""
    THEN [gs |-> [gs EXCEPT !.err = ""],
          ret |-> Throw("Failed to process protobuf namespace: " \o gs.err)]
    ELSE ReturnLines(EmitRelations(gs))

\* root is Null or Obj(node); packageName is Null or Str(path); gs0 is the
\* generator's state before the call.  The result is the generator's state
\* after the call and what the call returned or threw.
generateFromRoot(root, packageName, kt, ket, gs0) ==
    IF ~Truthy(root)
    THEN [gs |-> gs0, ret |-> Throw("Root namespace is required for PlantUML generation")]
    ELSE generateFromRootEnd(EmitContent(root.o, packageName, kt, ket, ResetGenerator(gs0)))

-----------------------------------------------------------------------------
(* Proto2Diagram (src/src/index.js, first half)                            *)

WordChars == {LowerCase[k] : k \in 1..26} \cup {UpperCase[k] : k \in 1..26}
                 \cup {Digits[k] : k \in 1..10} \cup {"_"}

ProtoKeywords ==
    {"syntax", "package", "message", "enum", "service", "rpc", "import", "option"}

\* whether word stands at position k of str between two \b word boundaries
WordAt(str, k, word) ==
    /\ k + Len(word) - 1 <= Len(str)
    /\ SubSeq(str, k, k + Len(word) - 1) = word
    /\ (k = 1 \/ CharAt(str, k - 1) \notin WordChars)
    /\ (k + Len(word) > Len(str) \/ CharAt(str, k + Len(word)) \notin WordChars)

isValidProtoSyntax(content) ==
    LET hasProtoKeywords ==
            \E k \in 1..Len(content) : \E word \in ProtoKeywords : WordAt(content, k, word)
        \* /[<>{}]/
        suspiciousChars == \E k \in 1..Len(content) : CharAt(content, k) \in {"<", ">", "{", "}"}
        \* /{[^}]*}/
        bracePair ==
            \E k \in 1..Len(content) :
                /\ CharAt(content, k) = "{"
                /\ \E m \in (k + 1)..Len(content) : CharAt(content, m) = "}"
        hasOnlyBraces == suspiciousChars /\ ~bracePair
    IN  hasProtoKeywords /\ ~hasOnlyBraces

\* typeof protoContent, for the values the model passes
TypeOf(x) == IF x.t = "null" THEN "object" ELSE x.t

validateProtoContent(protoContent) ==
    IF protoContent.t \in {"null", "undefined"}
    THEN Throw("Proto content cannot be null or undefined")
    ELSE IF ~IsString(protoContent)
    THEN Throw("Proto content must be a string, received " \o TypeOf(protoContent))
    ELSE LET trimmedContent == Trim(protoContent.v)
         IN  IF Len(trimmedContent) = 0
             THEN Throw("Proto content cannot be empty or contain only whitespace")
             ELSE IF ~isValidProtoSyntax(trimmedContent)
             THEN Throw("Proto content does not appear to contain valid protobuf syntax")
             ELSE Return(TRUE)

\* a catch block that throws the error on as it is
generateCatch_Rethrow(result) == result

\* the catch block of generatePlantUMLCode
generateCatch(result) ==
    IF result.ok THEN result
    ELSE Throw("Failed to generate PlantUML code: " \o result.message)

\* generatePlantUMLCode once generateFromRoot has returned or thrown
generateEnd(ps, g) == [ps |-> ps, gs |-> g.gs, ret |-> generateCatch(g.ret)]

\* generatePlantUMLCode once parseProtoString has returned or thrown
generateParsed(p, gs0) ==
    IF ~p.ret.ok
    THEN [ps |-> p.ps, gs |-> gs0, ret |-> generateCatch(p.ret)]
    ELSE generateEnd(p.ps,
             generateFromRoot(p.ret.v.root, p.ret.v.packageName, p.ps.kt, p.ps.ket, gs0))

\* generatePlantUMLCode once validateProtoContent has returned or thrown
generateValidated(valid, protoContent, parsed, ps0, gs0) ==
    IF ~valid.ok
    THEN [ps |-> ps0, gs |-> gs0, ret |-> generateCatch(valid)]
    ELSE generateParsed(parseProtoString(protoContent, parsed, ps0), gs0)

\* The result is the parser's and the generator's state after the call and
\* what the call returned or threw.
generatePlantUMLCode(protoContent, parsed, ps0, gs0) ==
    generateValidated(validateProtoContent(protoContent), protoContent, parsed, ps0, gs0)

-----------------------------------------------------------------------------
(* The PlantUML encoder: the JavaScript variant at the end of              *)
(* src/src/tests/runTests.js, whose r, i, c1..c4 are module variables      *)
(* shared by encode64 and append3bytes (as they are, inside encode, in     *)
(* src/src/imageEncoder/plantumlEncoder.ts).  A binary string is the       *)
(* sequence of its char codes; the token that comes out is a string.       *)
(* The operators thread the shared variables as a record                   *)
(* es = [r, i, c1, c2, c3, c4].                                            *)

\* c1..c4 before the first call of append3bytes hold undefined
UndefinedNumber == -1

EncoderState(rr, ii, cc1, cc2, cc3, cc4) ==
    [r |-> rr, i |-> ii, c1 |-> cc1, c2 |-> cc2, c3 |-> cc3, c4 |-> cc4]

\* the characters with the char codes 32..126; the place of code 96, a
\* character that a string of this module cannot hold, is taken by a space
PrintableAscii ==
    " !\"#$%&'()*+,-./0123456789:;<=>?@ABCDEFGHIJKLMNOPQRSTUVWXYZ[\\]^_ abcdefghijklmnopqrstuvwxyz{|}~"

\* String.fromCharCode(code), for the codes 32..126 other than 96
FromCharCode(code) == CharAt(PrintableAscii, code - 31)

\* a & b, a | b on non-negative integers, bit by bit
RECURSIVE BitAnd(_, _)
BitAnd(a, b) ==
    IF a = 0 \/ b = 0 THEN 0
    ELSE (a % 2) * (b % 2) + 2 * BitAnd(a \div 2, b \div 2)

RECURSIVE BitOr(_, _)
BitOr(a, b) ==
    IF a = 0 THEN b
    ELSE IF b = 0 THEN a
    ELSE (IF a % 2 = 1 \/ b % 2 = 1 THEN 1 ELSE 0) + 2 * BitOr(a \div 2, b \div 2)

\* a >> n, a << n (the values stay far below 2^31)
ShiftRight(a, n) == a \div (2 ^ n)
ShiftLeft(a, n) == a * (2 ^ n)

encode6bit(b) ==
    IF b < 10 THEN FromCharCode(48 + b)
    ELSE IF b - 10 < 26 THEN FromCharCode(65 + (b - 10))
    ELSE IF b - 36 < 26 THEN FromCharCode(97 + (b - 36))
    ELSE IF b - 62 = 0 THEN "-"
    ELSE IF b - 62 = 1 THEN "_"
    ELSE "?"

\* the four r += encode6bit(c & 0x3f) of append3bytes, after r = ""
Append6bits(es) ==
    [es EXCEPT !.r = encode6bit(BitAnd(es.c1, 63)) \o encode6bit(BitAnd(es.c2, 63))
                     \o encode6bit(BitAnd(es.c3, 63)) \o encode6bit(BitAnd(es.c4, 63))]

\* append3bytes sets c1..c4 and r; what it returns is the r it leaves
append3bytes(b1, b2, b3, es) ==
    Append6bits([es EXCEPT
        !.c1 = ShiftRight(b1, 2),
        !.c2 = BitOr(ShiftLeft(BitAnd(b1, 3), 4), ShiftRight(b2, 4)),
        !.c3 = BitOr(ShiftLeft(BitAnd(b2, 15), 2), ShiftRight(b3, 6)),
        !.c4 = BitAnd(b3, 63),
        !.r = ""])

\* r += append3bytes(...) with r read before the call
AddAssign_ReadAfter(before, after) == [after EXCEPT !.r = after.r \o after.r]

\* r += append3bytes(...): the r read before the call, then what the call
\* returned; c1..c4 are as the call left them
AddAssign(before, after) == [after EXCEPT !.r = before.r \o after.r]

\* the body of the for loop of encode64
encode64Step(data, es) ==
    IF es.i + 2 = Len(data)
    THEN AddAssign(es, append3bytes(data[es.i + 1], data[es.i + 2], 0, es))
    ELSE IF es.i + 1 = Len(data)
    THEN AddAssign(es, append3bytes(data[es.i + 1], 0, 0, es))
    ELSE AddAssign(es, append3bytes(data[es.i + 1], data[es.i + 2], data[es.i + 3], es))

\* for (...; i < data.length; i += 3)
RECURSIVE encode64Loop(_, _)
encode64Loop(data, es) ==
    IF es.i < Len(data)
    THEN encode64Loop(data, [encode64Step(data, es) EXCEPT !.i = @ + 3])
    ELSE es

\* return r
ReturnR(es) == [es |-> es, ret |-> Return(es.r)]

\* encode64 without the r = "" it begins with
encode64_NoReset(data, es) == encode64Loop(data, [es EXCEPT !.i = 0])

\* encode64 leaves what it returns in r
encode64(data, es) == encode64Loop(data, [es EXCEPT !.r = "", !.i = 0])

\* append3bytes of the variant whose c1..c4 and result are local variables
\* (src/unnamed/part_001)
append3bytesLocal(b1, b2, b3) ==
    LET lc1 == ShiftRight(b1, 2)
        lc2 == BitOr(ShiftLeft(BitAnd(b1, 3), 4), ShiftRight(b2, 4))
        lc3 == BitOr(ShiftLeft(BitAnd(b2, 15), 2), ShiftRight(b3, 6))
        lc4 == BitAnd(b3, 63)
    IN  encode6bit(BitAnd(lc1, 63)) \o encode6bit(BitAnd(lc2, 63))
            \o encode6bit(BitAnd(lc3, 63)) \o encode6bit(BitAnd(lc4, 63))

\* the for loop of that variant's encode64, from the byte after offset on
RECURSIVE encode64LocalLoop(_, _, _)
encode64LocalLoop(data, offset, result) ==
    IF offset >= Len(data) THEN result
    ELSE IF offset + 2 = Len(data)
    THEN encode64LocalLoop(data, offset + 3,
             result \o append3bytesLocal(data[offset + 1], data[offset + 2], 0))
    ELSE IF offset + 1 = Len(data)
    THEN encode64LocalLoop(data, offset + 3,
             result \o append3bytesLocal(data[offset + 1], 0, 0))
    ELSE encode64LocalLoop(data, offset + 3,
             result \o append3bytesLocal(data[offset + 1], data[offset + 2],
                                         data[offset + 3]))

\* let result = ""; for (let i = 0; ...) ...; return result
encode64Local(data) == encode64LocalLoop(data, 0, "")

\* a text is a JavaScript string, held as the sequence of its UTF-16 code units
Text(units) == [t |-> "string", u |-> units]

\* the char code of a character of a string of this module: 10 for \n, else
\* its place in the table of the codes 32..126
CharCode(ch) ==
    IF ch = "\n" THEN 10
    ELSE 31 + CHOOSE k \in 1..Len(PrintableAscii) : CharAt(PrintableAscii, k) = ch

\* the code units of a string of this module
Units(str) == [k \in 1..Len(str) |-> CharCode(CharAt(str, k))]

\* String(x) of a text, null or undefined, as code units
ToUnits(x) ==
    CASE x.t = "string" -> x.u
      [] x.t = "null" -> Units("null")
      [] OTHER -> Units("undefined")

IsHighSurrogate(cu) == cu >= 55296 /\ cu <= 56319
IsLowSurrogate(cu) == cu >= 56320 /\ cu <= 57343

\* the UTF-8 bytes of one code point
Utf8OfCodePoint(cp) ==
    IF cp < 128 THEN <<cp>>
    ELSE IF cp < 2048 THEN <<192 + (cp \div 64), 128 + (cp % 64)>>
    ELSE IF cp < 65536
    THEN <<224 + (cp \div 4096), 128 + ((cp \div 64) % 64), 128 + (cp % 64)>>
    ELSE <<240 + (cp \div 262144), 128 + ((cp \div 4096) % 64),
           128 + ((cp \div 64) % 64), 128 + (cp % 64)>>

\* the code point of a surrogate pair
CodePoint(high, low) == 65536 + (high - 55296) * 1024 + (low - 56320)

\* unit k is a surrogate that has no partner: a high one that no low one
\* follows, or a low one that no high one precedes
LoneSurrogateAt(units, k) ==
    \/ IsHighSurrogate(units[k]) /\ ~(k < Len(units) /\ IsLowSurrogate(units[k + 1]))
    \/ IsLowSurrogate(units[k]) /\ ~(k > 1 /\ IsHighSurrogate(units[k - 1]))

\* the UTF-8 bytes unit k brings: those of the code point of its pair for a
\* high surrogate, none for the low surrogate of a pair
Utf8At(units, k) ==
    IF IsHighSurrogate(units[k]) THEN Utf8OfCodePoint(CodePoint(units[k], units[k + 1]))
    ELSE IF IsLowSurrogate(units[k]) THEN <<>>
    ELSE Utf8OfCodePoint(units[k])

\* the UTF-8 bytes of the units a..b, in order
RECURSIVE Utf8Between(_, _, _)
Utf8Between(units, a, b) ==
    IF a > b THEN <<>>
    ELSE IF a = b THEN Utf8At(units, a)
    ELSE Utf8Between(units, a, (a + b) \div 2) \o Utf8Between(units, ((a + b) \div 2) + 1, b)

\* unescape(encodeURIComponent(text)): the binary string of the UTF-8 bytes
\* of the text; encodeURIComponent throws a URIError at a surrogate that has
\* no partner
Utf8Encode(units) ==
    IF \E k \in 1..Len(units) : LoneSurrogateAt(units, k)
    THEN Throw("URI malformed")
    ELSE Return(Utf8Between(units, 1, Len(units)))

-----------------------------------------------------------------------------
(* The compressor is not code of this repository: pako.deflateRaw, or the  *)
(* deflate / zip_deflate of js-deflate.  What it returns for the bytes of  *)
(* a call belongs to the environment of that call (env.deflated below);    *)
(* the operators of this section build the stream zlib returns for the     *)
(* texts the actions hand over, and nothing here is read from the source.  *)

\* pako's string2buf: pako.deflateRaw converts a string argument to the
\* UTF-8 bytes of its characters (here the chars 0..255 of a binary string)
RECURSIVE string2buf(_)
string2buf(str) ==
    IF Len(str) = 0 THEN <<>>
    ELSE Utf8OfCodePoint(Head(str)) \o string2buf(Tail(str))

\* the n bits of code, most significant first
RECURSIVE Bits(_, _)
Bits(code, n) ==
    IF n = 0 THEN <<>> ELSE Append(Bits(code \div 2, n - 1), code % 2)

\* the code of a literal byte in the fixed Huffman code of DEFLATE
FixedLiteral(b) == IF b < 144 THEN Bits(48 + b, 8) ELSE Bits(400 + (b - 144), 9)

RECURSIVE FixedLiterals(_)
FixedLiterals(bytes) ==
    IF Len(bytes) = 0 THEN <<>>
    ELSE FixedLiteral(Head(bytes)) \o FixedLiterals(Tail(bytes))

\* bits to bytes, the first bit in the lowest place, the last byte filled
\* with zeros
RECURSIVE PackBits(_)
PackBits(bits) ==
    IF Len(bits) = 0 THEN <<>>
    ELSE IF Len(bits) < 8 THEN PackBits(bits \o [k \in 1..(8 - Len(bits)) |-> 0])
    ELSE <<bits[1] + 2 * bits[2] + 4 * bits[3] + 8 * bits[4]
           + 16 * bits[5] + 32 * bits[6] + 64 * bits[7] + 128 * bits[8]>>
         \o PackBits(SubSeq(bits, 9, Len(bits)))

\* one final block of literals in the fixed code: header 1, 01, the
\* literals, the end-of-block code
FixedBlock(bytes) == PackBits(<<1, 1, 0>> \o FixedLiterals(bytes) \o Bits(0, 7))

\* one final stored block: header, LEN, NLEN, the bytes
StoredBlock(bytes) ==
    <<1, Len(bytes) % 256, Len(bytes) \div 256,
      255 - (Len(bytes) % 256), 255 - (Len(bytes) \div 256)>> \o bytes

\* zlib's static_lenb: the bytes the fixed block takes
StaticLenB(bytes) == (Len(FixedLiterals(bytes)) + 7 + 3 + 7) \div 8

\* The raw DEFLATE stream zlib returns at level 9 for a short byte string in
\* which no run of three bytes occurs twice (the texts of the actions): there
\* is no match to code, so the block holds literals only, and it is a stored
\* block when that is not longer and a fixed-code block otherwise (the
\* header of a dynamic code alone is longer than these inputs).  For other
\* bytes a compressor returns another stream, which this operator does not
\* give.
ZlibStream(bytes) ==
    IF Len(bytes) + 4 <= StaticLenB(bytes) THEN StoredBlock(bytes) ELSE FixedBlock(bytes)

-----------------------------------------------------------------------------
(* compressAndEncode and generatePlantUMLImageUrl (src/src/tests/runTests.js) *)

\* charCode.toString(16)
HexDigits == "0123456789abcdef"

RECURSIVE ToHex(_)
ToHex(n) ==
    IF n < 16 THEN CharAt(HexDigits, n + 1)
    ELSE ToHex(n \div 16) \o CharAt(HexDigits, (n % 16) + 1)

\* .padStart(2, "0")
PadStart2(str) == IF Len(str) < 2 THEN "0" \o str ELSE str

\* the mapped and joined digits of the characters, the two halves of the
\* text one after the other
RECURSIVE convertToHex(_)
convertToHex(text) ==
    IF Len(text) = 0 THEN ""
    ELSE IF Len(text) = 1 THEN PadStart2(ToHex(text[1]))
    ELSE convertToHex(SubSeq(text, 1, Len(text) \div 2))
             \o convertToHex(SubSeq(text, (Len(text) \div 2) + 1, Len(text)))

\* What the environment of a call offers: pako ("absent", "works", or
\* "throws" when pako.deflateRaw throws), whether the globals deflate and
\* zip_deflate of js-deflate are defined, and deflated, the bytes the
\* compressor returns for what this call hands it.
Env(pako, deflate, zip_deflate, deflated) ==
    [pako |-> pako, deflate |-> deflate, zip_deflate |-> zip_deflate,
     deflated |-> deflated]

\* { data: ..., type: ... }
Encoded(data, type) == [data |-> data, type |-> type]

\* return { data: encode64(deflated), type: "deflate" }
ReturnEncoded(es) == [es |-> es, ret |-> ReturnObject(Encoded(es.r, "deflate"))]

\* compressAndEncode after the pako branch: the js-deflate globals, then hex
compressFallback(s, env, es) ==
    IF env.deflate \/ env.zip_deflate
    THEN ReturnEncoded(encode64(env.deflated, es))
    ELSE [es |-> es, ret |-> ReturnObject(Encoded(convertToHex(s), "hex"))]

\* compressAndEncode once s, the UTF-8 binary string, is there
compressEncoded(s, env, es) ==
    IF env.pako = "works"
    THEN ReturnEncoded(encode64(env.deflated, es))
    ELSE compressFallback(s, env, es)

\* compressAndEncode once unescape(encodeURIComponent()) returned or threw
compressUtf8(utf8, env, es) ==
    IF ~utf8.ok THEN [es |-> es, ret |-> utf8]
    ELSE compressEncoded(utf8.v, env, es)

compressAndEncode(plantumlText, env, es) ==
    compressUtf8(Utf8Encode(ToUnits(plantumlText)), env, es)

\* String(x) of a string of this module, null or undefined
StringOf(x) ==
    CASE x.t = "string" -> x.v
      [] x.t = "null" -> "null"
      [] OTHER -> "undefined"

\* generatePlantUMLImageUrl once compressAndEncode returned or threw
imageUrlOf(result, baseUrl) ==
    IF ~result.ret.ok THEN result
    ELSE IF result.ret.o.type = "hex"
    THEN [es |-> result.es, ret |-> Return(StringOf(baseUrl) \o "~h" \o result.ret.o.data)]
    ELSE [es |-> result.es, ret |-> Return(StringOf(baseUrl) \o result.ret.o.data)]

generatePlantUMLImageUrl(plantumlText, baseUrl, env, es) ==
    imageUrlOf(compressAndEncode(plantumlText, env, es), baseUrl)

-----------------------------------------------------------------------------
(* Proto2Diagram.generateDiagramUrl and the constructor (src/src/index.js) *)

\* an options object: the keys it has, and the value of plantumlEndpoint
\* (undefined when it has no such key)
Options(keys, plantumlEndpoint) ==
    Obj([keys |-> keys, plantumlEndpoint |-> plantumlEndpoint])

\* {}
EmptyOptions == Options({}, Undefined)

\* a || b
OrElse(a, b) == IF Truthy(a) THEN a ELSE b

\* this.options.plantumlEndpoint after the constructor: the spread ...options
\* comes after the default and overwrites it when options has the key
constructor(opts) ==
    IF "plantumlEndpoint" \in opts.o.keys
    THEN opts.o.plantumlEndpoint
    ELSE OrElse(opts.o.plantumlEndpoint, Str(PLANTUML_ENDPOINT))

\* the catch block of generateDiagramUrl
diagramCatch(result) ==
    IF result.ok THEN result
    ELSE Throw("Failed to generate diagram: " \o result.message)

\* the result of generateDiagramUrl: the states of the parser, the generator
\* and the encoder after the call, and what the promise settles to
DiagramResult(ps, gs, es, result) ==
    [ps |-> ps, gs |-> gs, es |-> es, ret |-> diagramCatch(result)]

\* generateDiagramUrl once generatePlantUMLImageUrl has returned or thrown
diagramUrlOf(url, plantumlCode, ps, gs) ==
    IF ~url.ret.ok THEN DiagramResult(ps, gs, url.es, url.ret)
    ELSE IF url.ret.v = ""
    THEN DiagramResult(ps, gs, url.es, Throw("Failed to generate valid image URL"))
    ELSE DiagramResult(ps, gs, url.es,
             ReturnObject([imageUrl |-> url.ret.v, plantumlCode |-> plantumlCode,
                           success |-> TRUE]))

\* generateDiagramUrl once the endpoint is determined
diagramEndpoint(endpoint, plantumlCode, env, ps, gs, es) ==
    IF ~Truthy(endpoint) \/ ~IsString(endpoint)
    THEN DiagramResult(ps, gs, es, Throw("PlantUML endpoint must be a valid URL string"))
    ELSE diagramUrlOf(generatePlantUMLImageUrl(Text(Units(plantumlCode)), endpoint, env, es),
                      plantumlCode, ps, gs)

\* generateDiagramUrl once generatePlantUMLCode has returned or thrown
diagramCode(code, validatedOptions, thisOptions, env, es) ==
    IF ~code.ret.ok THEN DiagramResult(code.ps, code.gs, es, code.ret)
    ELSE IF code.ret.v = ""
    THEN DiagramResult(code.ps, code.gs, es, Throw("Failed to generate valid PlantUML code"))
    ELSE diagramEndpoint(OrElse(validatedOptions.o.plantumlEndpoint, thisOptions),
                         code.ret.v, env, code.ps, code.gs, es)

\* generateDiagramUrl(protoContent, options) with options given
diagramOptions(protoContent, parsed, opts, thisOptions, env, ps0, gs0, es0) ==
    IF opts.t # "null" /\ opts.t # "object"
    THEN [ps |-> ps0, gs |-> gs0, es |-> es0,
          ret |-> Throw("Options must be an object or null")]
    ELSE diagramCode(generatePlantUMLCode(protoContent, parsed, ps0, gs0),
                     OrElse(opts, EmptyOptions), thisOptions, env, es0)

\* async generateDiagramUrl(protoContent, options = {}): a throw is the
\* rejection of the promise, a return its fulfilment
generateDiagramUrl(protoContent, parsed, opts, thisOptions, env, ps0, gs0, es0) ==
    diagramOptions(protoContent, parsed,
                   IF opts.t = "undefined" THEN EmptyOptions ELSE opts,
                   thisOptions, env, ps0, gs0, es0)

\* getConfig(): a copy of this.options
getConfig(thisOptions) == ReturnObject(Options({"plantumlEndpoint"}, thisOptions))

\* updateConfig(newOptions): this.options.plantumlEndpoint after the call,
\* and what the call returned or threw; the spread ...newOptions overwrites
\* the endpoint when newOptions has the key
updateConfig(newOptions, thisOptions) ==
    IF ~Truthy(newOptions) \/ newOptions.t # "object"
    THEN [options |-> thisOptions, ret |-> Throw("New options must be a valid object")]
    ELSE IF Truthy(newOptions.o.plantumlEndpoint) /\ ~IsString(newOptions.o.plantumlEndpoint)
    THEN [options |-> thisOptions, ret |-> Throw("plantumlEndpoint must be a string")]
    ELSE [options |-> IF "plantumlEndpoint" \in newOptions.o.keys
                      THEN newOptions.o.plantumlEndpoint
                      ELSE thisOptions,
          ret |-> ReturnObject(Undefined)]

\* what new Proto2Diagram(null) throws when it reads options.plantumlEndpoint
NullOptionsError == "Cannot read properties of null (reading 'plantumlEndpoint')"

\* static async generateDiagram(protoContent, options = {}) up to its await:
\* the call is made on an instance of its own, whose parser and generator
\* are new; only the variables of the encoder module are those of every
\* instance.  A throw before the await rejects the promise handed back;
\* at 'return await lib.generateDiagramUrl(protoContent)' the work is done
\* and the call waits (awaits) to hand on what the instance's promise
\* settled to (ret)
generateDiagram(protoContent, parsed, opts, env, es0) ==
    IF opts.t \notin {"undefined", "null", "object"}
    THEN [es |-> es0, awaits |-> FALSE, ret |-> Throw("Options must be an object or null")]
    ELSE IF opts.t = "null"
    THEN [es |-> es0, awaits |-> FALSE,
          ret |-> Throw("Failed to create Proto2Diagram instance: " \o NullOptionsError)]
    ELSE LET lib == constructor(IF opts.t = "undefined" THEN EmptyOptions ELSE opts)
             res == generateDiagramUrl(protoContent, parsed, Undefined, lib, env,
                                       ParserState({}, {}),
                                       GeneratorState(<<>>, <<>>, {}), es0)
         IN  [es |-> res.es, awaits |-> TRUE, ret |-> res.ret]

-----------------------------------------------------------------------------
(* The encoder of imageEncoder/plantumlEncoder.ts: encode(pumlText)        *)

\* new TextEncoder().encode(text): the UTF-8 bytes of the text from unit k
\* on, appended to bytes; a surrogate that has no partner becomes U+FFFD
RECURSIVE TextEncodeFrom(_, _, _)
TextEncodeFrom(units, k, bytes) ==
    IF k > Len(units) THEN bytes
    ELSE IF IsHighSurrogate(units[k]) /\ k < Len(units) /\ IsLowSurrogate(units[k + 1])
    THEN TextEncodeFrom(units, k + 2,
                        bytes \o Utf8OfCodePoint(CodePoint(units[k], units[k + 1])))
    ELSE IF IsHighSurrogate(units[k]) \/ IsLowSurrogate(units[k])
    THEN TextEncodeFrom(units, k + 1, bytes \o Utf8OfCodePoint(65533))
    ELSE TextEncodeFrom(units, k + 1, bytes \o Utf8OfCodePoint(units[k]))

TextEncode(units) == TextEncodeFrom(units, 1, <<>>)

\* what pako.deflateRaw throws when it fails: the message of the stream
PakoError == "stream error"

\* the catch block of encode's compressAndEncode
encodeCatch(error) == Throw("Pako compression failed: \" " \o error)

\* the try block of encode's compressAndEncode; r, i, c1..c4 are variables
\* of this call of encode
encodeTry(escaped, env) ==
    IF env.pako = "works"
    THEN Return(encode64(env.deflated,
                         EncoderState("", 0, UndefinedNumber, UndefinedNumber,
                                      UndefinedNumber, UndefinedNumber)).r)
    ELSE encodeCatch(PakoError)

\* the text TextEncoder.encode(input) encodes: its parameter defaults to ""
\* for undefined, and any other value is made a string
EncoderInput(pumlText) == IF pumlText.t = "undefined" THEN <<>> ELSE ToUnits(pumlText)

\* encode(pumlText) of plantumlEncoder.ts
encode(pumlText, env) == encodeTry(TextEncode(EncoderInput(pumlText)), env)

-----------------------------------------------------------------------------
(* The inputs of the model: schemas as the external parser hands them over *)

MaxFields == 3
MaxCalls == 2

PlainField(name, type) == Field(name, type, FALSE, FALSE, "", "", "", FALSE)
RepeatedField(name, type) == Field(name, type, FALSE, TRUE, "repeated", "", "", FALSE)
OptionalField(name, type) == Field(name, type, FALSE, FALSE, "optional", "", "", FALSE)
MapField(name, keyType, type) == Field(name, type, TRUE, FALSE, "", "", keyType, FALSE)
OneofField(name, type, oneof) == Field(name, type, FALSE, FALSE, "", oneof, "", FALSE)
ReservedField(name, type) == Field(name, type, FALSE, FALSE, "", "", "", TRUE)

\* the shapes a field of the message Container takes; its name is set by its place
FieldShapes ==
    {PlainField("", "User"), RepeatedField("", "User"), OptionalField("", "User"),
     PlainField("", "Status")}

FieldNames == <<"single_user", "more_users", "user_3", "f4", "f5">>

\* the field lists of Container: up to MaxFields shapes, named by place
FieldLists ==
    UNION {[1..n -> FieldShapes] : n \in 0..MaxFields}

NameFields(shapes) == [k \in 1..Len(shapes) |-> [shapes[k] EXCEPT !.name = FieldNames[k]]]

UserType == Type("User", <<PlainField("name", "string")>>, <<>>, <<>>)
StatusEnum == Enum("Status", <<"UNKNOWN", "ACTIVE">>)

\* package a.b.c wraps the entities in namespaces a -> b -> c
RECURSIVE WrapInPackage(_, _)
WrapInPackage(parts, entities) ==
    IF Len(parts) = 0 THEN entities
    ELSE <<Namespace(parts[1], WrapInPackage(Tail(parts), entities))>>

Schema(package, entities) ==
    Parsed(Obj(Root(IF Truthy(package)
                    THEN WrapInPackage(Split(package.v, "."), entities)
                    ELSE entities)),
           package)

ContainerSchemas ==
    {Schema(Undefined, <<Type("Container", NameFields(fl), <<>>, <<>>), UserType, StatusEnum>>)
        : fl \in FieldLists}

\* a message with a nested enumeration, a map, a well-known type and a oneof
OrderType ==
    Type("Order",
         <<PlainField("order_state", "State"),
           MapField("items", "string", "User"),
           PlainField("created_at", "google.protobuf.Timestamp"),
           OneofField("card_id", "string", "payment"),
           OneofField("payer", "User", "payment"),
           ReservedField("old_total", "int32")>>,
         <<OneOf("payment", <<OneofField("card_id", "string", "payment"),
                              OneofField("payer", "User", "payment")>>)>>,
         <<Enum("State", <<"NEW", "PAID">>)>>)

\* a service whose RPCs share types
UserService ==
    Service("UserService",
            <<Method("GetUser", "User", "User"),
              Method("ListUsers", "Status", "User"),
              Method("Ping", "google.protobuf.Empty", "")>>)

\* a message that nests a message that nests an enumeration, next to an
\* enumeration of its own
OuterType ==
    Type("Outer",
         <<PlainField("inner", "Inner"), PlainField("level", "Level"),
           PlainField("kind", "Kind"), PlainField("ref", "Ref")>>,
         <<>>,
         <<Type("Inner", <<PlainField("level", "Level")>>, <<>>,
                <<Enum("Level", <<"LOW", "HIGH">>)>>),
           Enum("Kind", <<"PLAIN">>)>>)

\* a message with a oneof of two members, one of one member and one of three
ChoiceType ==
    Type("Choice",
         <<OneofField("by_id", "string", "key"),
           OneofField("by_name", "string", "key"),
           OneofField("only_one", "string", "single"),
           OneofField("first_way", "User", "route"),
           OneofField("second_way", "string", "route"),
           OneofField("third_way", "string", "route")>>,
         <<OneOf("key", <<OneofField("by_id", "string", "key"),
                          OneofField("by_name", "string", "key")>>),
           OneOf("single", <<OneofField("only_one", "string", "single")>>),
           OneOf("route", <<OneofField("first_way", "User", "route"),
                            OneofField("second_way", "string", "route"),
                            OneofField("third_way", "string", "route")>>)>>,
         <<>>)

\* a message that nests a message and no enumeration of its own
HolderType ==
    Type("Holder",
         <<PlainField("part", "Part"), PlainField("grade", "Grade")>>,
         <<>>,
         <<Type("Part", <<RepeatedField("grades", "Grade")>>, <<>>,
                <<Enum("Grade", <<"A", "B">>)>>)>>)

FeatureEntities ==
    {<<OrderType, UserType>>,
     <<HolderType>>,
     <<ChoiceType, UserType>>,
     <<OuterType, UserType>>,
     <<OuterType, Type("Outer_Ref", <<PlainField("id", "string")>>, <<>>, <<>>)>>,
     <<Namespace("common", <<StatusEnum, UserType>>), OuterType>>,
     <<UserType, StatusEnum, UserService>>,
     <<StatusEnum, UserService, OrderType, UserType>>,
     <<Type("Container", NameFields(<<PlainField("", "User"), RepeatedField("", "User"),
                                      PlainField("", "Status")>>), <<>>, <<>>),
       UserType, StatusEnum>>,
     <<>>}

Packages ==
    {Undefined, Str("shop"), Str("api"), Str("com.shop"), Str("shop.API"),
     Str("com.example.api"), Str("com.example.shop")}

FeatureSchemas == {Schema(pkg, es) : pkg \in Packages, es \in FeatureEntities}

\* trees no schema text parses to, which a caller of generateFromRoot can build
MalformedRoots ==
    {Root(<<UserType, Type("Broken", <<PlainField("ok", "User"), PlainField("bad", "")>>,
                           <<>>, <<>>)>>),
     Root(<<StatusEnum, Node("enum", "Lost", "", <<>>, <<>>, <<>>, <<"A">>, TRUE, <<>>, FALSE)>>),
     Root(<<Type("Anon", <<PlainField(NoName, "string"), PlainField("", "string")>>,
                 <<>>, <<>>)>>)}

ValidText == "syntax = \"proto3\"; message User { string name = 1; }"

NoParse == ParseThrows("")

\* protoContent with what protobuf.parse makes of it
Content(protoContent, parsed) == [protoContent |-> protoContent, parsed |-> parsed]

InvalidContents ==
    {Content(Null, NoParse), Content(Undefined, NoParse), Content(Num(42), NoParse),
     Content(Str(""), NoParse), Content(Str("  \n"), NoParse),
     Content(Str("\r\n\r"), NoParse),
     Content(Str(LineTabulation), NoParse),
     Content(Str(" " \o NoBreakSpace \o ByteOrderMark \o OghamSpaceMark), NoParse),
     Content(Str("hello world"), NoParse), Content(Str("message {"), NoParse),
     Content(Str("message User { string name = 1 }"),
             ParseThrows("illegal token '}', ';' expected (line 1)"))}

\* a tree with content on two levels under a package name that trim() empties,
\* which a caller of generateFromRoot can hand over
BlankPackage ==
    Parsed(Obj(Root(<<Namespace("com", <<UserType, Namespace("shop", <<StatusEnum>>)>>)>>)),
           Str("\r" \o LineTabulation \o ByteOrderMark))

Contents ==
    InvalidContents
        \cup {Content(Str(ValidText), sc) : sc \in ContainerSchemas \cup FeatureSchemas}
        \cup {Content(Str(ValidText), Parsed(Obj(root), Undefined)) : root \in MalformedRoots}
        \cup {Content(Str(ValidText), BlankPackage)}

\* the files handed to parser.parseProtoFile: none, an object without
\* text(), one whose text() fails, and files of a schema, of a text that
\* does not parse and of a blank text
Files ==
    {Null,
     Obj(FileObject(FALSE, FALSE, "", Content(Str(""), NoParse))),
     Obj(FileObject(TRUE, FALSE, "disk error", Content(Str(""), NoParse))),
     Obj(FileObject(TRUE, TRUE, "",
                    Content(Str(ValidText), Schema(Undefined, <<UserType, StatusEnum>>)))),
     Obj(FileObject(TRUE, TRUE, "",
                    Content(Str("message User { string name = 1 }"),
                            ParseThrows("illegal token '}', ';' expected (line 1)")))),
     Obj(FileObject(TRUE, TRUE, "", Content(Str("\r\n"), NoParse)))}

-----------------------------------------------------------------------------
(* The Proto2Diagram instance: one parser and one generator, reused        *)


NoOp == [name |-> "new"]

Init ==
    /\ knownTypes = {}
    /\ knownEnumTypes = {}
    /\ lines = <<>>
    /\ relations = <<>>
    /\ relationSet = {}
    /\ r = ""
    /\ i = 0
    /\ c1 = UndefinedNumber /\ c2 = UndefinedNumber
    /\ c3 = UndefinedNumber /\ c4 = UndefinedNumber
    /\ options = Str(PLANTUML_ENDPOINT)
    /\ pending = <<>>
    /\ reading = {}
    /\ calls = 0
    /\ op = NoOp
    /\ ret = Return("")
    /\ prev = [op |-> NoOp, ret |-> Return("")]

\* one more call was made; the last one becomes the one before
Remember ==
    /\ calls' = calls + 1
    /\ prev' = [op |-> op, ret |-> ret]

\* the instance's variables after an operation that ended as res
InstanceBecomes(res) ==
    /\ knownTypes' = res.ps.kt
    /\ knownEnumTypes' = res.ps.ket
    /\ lines' = res.gs.lines
    /\ relations' = res.gs.relations
    /\ relationSet' = res.gs.relationSet
    /\ ret' = res.ret

GeneratePlantUMLCode ==
    /\ calls < MaxCalls
    /\ \E c \in Contents :
          /\ InstanceBecomes(generatePlantUMLCode(c.protoContent, c.parsed,
                                 ParserState(knownTypes, knownEnumTypes),
                                 GeneratorState(lines, relations, relationSet)))
          /\ op' = [name |-> "generatePlantUMLCode", content |-> c]
    /\ Remember
    /\ UNCHANGED <<options, pending, reading>>
    /\ UNCHANGED encoderVars

\* the values a caller hands to parser.getRelationshipType
RelationshipInputs ==
    {Null, Undefined, Num(42), Str(""), Str("User"), Str("Container"), Str("Status"),
     Str("State"), Str("Order_State"), Str("Ghost")}

\* parser.getRelationshipType(resolvedType) on the instance's parser
GetRelationshipType ==
    /\ calls < MaxCalls
    /\ \E x \in RelationshipInputs :
          /\ ret' = Return(getRelationshipType(x, knownEnumTypes))
          /\ op' = [name |-> "getRelationshipType", resolvedType |-> x]
    /\ Remember
    /\ UNCHANGED <<options, pending, reading>>
    /\ UNCHANGED <<parserVars, generatorVars, encoderVars>>

\* the values a caller hands to parser.getCardinality: null, or an object with
\* any of the flags map, repeated, rule and partOf
CardinalityInputs ==
    {Null} \cup
    {Obj(Field("f", "User", m, rep, rule, partOf, "", FALSE)) :
        m \in BOOLEAN, rep \in BOOLEAN,
        rule \in {"", "optional", "repeated", "required"}, partOf \in {"", "choice"}}

\* parser.getCardinality(field) on the instance's parser
GetCardinality ==
    /\ calls < MaxCalls
    /\ \E f \in CardinalityInputs :
          /\ ret' = Return(getCardinality(f))
          /\ op' = [name |-> "getCardinality", field |-> f]
    /\ Remember
    /\ UNCHANGED <<options, pending, reading>>
    /\ UNCHANGED <<parserVars, generatorVars, encoderVars>>

\* the type names and parent names a caller hands to parser.resolveTypeName
\* ("" stands for a value that is empty or not a string)
ResolveInputs ==
    {"", "User", "Status", "State", "Level", "Ref", "string", "Ghost"}
        \X {"", "Order", "Outer", "Inner"}

\* parser.resolveTypeName(fieldType, parentTypeName) on the instance's parser
ResolveTypeName ==
    /\ calls < MaxCalls
    /\ \E x \in ResolveInputs :
          /\ ret' = resolveTypeName(x[1], x[2], knownTypes)
          /\ op' = [name |-> "resolveTypeName", fieldType |-> x[1], parentTypeName |-> x[2]]
    /\ Remember
    /\ UNCHANGED <<options, pending, reading>>
    /\ UNCHANGED <<parserVars, generatorVars, encoderVars>>

\* the promise of a call that has returned or thrown an object or a string
Settled(result) == IF result.ok THEN ReturnObject(result.v) ELSE result

\* parser.parseProtoFile(file) on the instance's parser, up to its await
ParseProtoFile ==
    /\ calls < MaxCalls
    /\ \E file \in Files :
          /\ ret' = parseProtoFileCall(file)
          /\ reading' = IF parseProtoFileCall(file).ok
                        THEN reading \cup {[call |-> calls + 1, file |-> file]}
                        ELSE reading
          /\ op' = [name |-> "parseProtoFile", file |-> file]
    /\ Remember
    /\ UNCHANGED <<options, pending>>
    /\ UNCHANGED <<parserVars, generatorVars, encoderVars>>

\* a call of parseProtoFile goes on after its await, whatever the instance
\* did meanwhile
ParseProtoFileResume ==
    /\ \E w \in reading :
          LET res == parseProtoFileResume(w.file, ParserState(knownTypes, knownEnumTypes))
          IN  /\ knownTypes' = res.ps.kt
              /\ knownEnumTypes' = res.ps.ket
              /\ ret' = Settled(res.ret)
              /\ reading' = reading \ {w}
              /\ op' = [name |-> "parseProtoFile.resume", file |-> w.file, call |-> w.call]
    /\ prev' = [op |-> op, ret |-> ret]
    /\ UNCHANGED <<calls, options, pending>>
    /\ UNCHANGED <<generatorVars, encoderVars>>

Next ==
    \/ GeneratePlantUMLCode
    \/ GetRelationshipType
    \/ GetCardinality
    \/ ResolveTypeName
    \/ ParseProtoFile
    \/ ParseProtoFileResume

Spec == Init /\ [][Next]_vars

-----------------------------------------------------------------------------
(* parser.toCamelCase, a pure function, on every short name                *)

MaxNameLen == 4

\* a lowercase letter or two, an uppercase letter, a digit and the underscore
NameChars == {"a", "b", "Z", "1", "_"}

RECURSIVE NamesUpTo(_)
NamesUpTo(n) ==
    IF n = 0 THEN {""}
    ELSE NamesUpTo(n - 1) \cup {s \o c : s \in NamesUpTo(n - 1), c \in NameChars}

Names == NamesUpTo(MaxNameLen)

\* a caller holds a name and has not called yet
NameInit ==
    /\ knownTypes = {}
    /\ knownEnumTypes = {}
    /\ lines = <<>>
    /\ relations = <<>>
    /\ relationSet = {}
    /\ r = ""
    /\ i = 0
    /\ c1 = UndefinedNumber /\ c2 = UndefinedNumber
    /\ c3 = UndefinedNumber /\ c4 = UndefinedNumber
    /\ options = Str(PLANTUML_ENDPOINT)
    /\ pending = <<>>
    /\ reading = {}
    /\ calls = 0
    /\ \E s \in Names : op = [name |-> "hold", str |-> s]
    /\ ret = Return("")
    /\ prev = [op |-> NoOp, ret |-> Return("")]

\* parser.toCamelCase(str), first on the name held and then on what the call
\* before returned
ToCamelCase ==
    /\ calls < MaxCalls
    /\ LET str == IF calls = 0 THEN op.str ELSE ret.v
       IN  /\ ret' = Return(toCamelCase(str))
           /\ op' = [name |-> "toCamelCase", str |-> str]
    /\ Remember
    /\ UNCHANGED <<options, pending, reading>>
    /\ UNCHANGED <<parserVars, generatorVars, encoderVars>>

NameNext == ToCamelCase

NameSpec == NameInit /\ [][NameNext]_vars

-----------------------------------------------------------------------------
(* The package layout functions of the generator, called on a tree and a   *)
(* package path                                                            *)

MaxSegments == 10

\* the last segment of a path: plain, or a meaningful name in some casing
LastSegments == {"shop", "api", "Client", "server"}

\* the path of n segments p1.p2. ... .last
PathOf(n, last) == Join([k \in 1..n |-> IF k = n THEN last ELSE "p" \o ToString(k)], ".")

LayoutPaths == {PathOf(n, last) : n \in 1..MaxSegments, last \in LastSegments}

\* what the package declares: nothing, types at one level, types at two levels
LayoutEntities ==
    {<<>>, <<UserType>>, <<StatusEnum, Namespace("common", <<UserType>>)>>}

\* the tree protobuf.parse builds for a package path and its entities
LayoutRoot(path, entities) == Root(WrapInPackage(Split(path, "."), entities))

\* a caller holds a tree and its package path and has not called yet
LayoutInit ==
    /\ knownTypes = {}
    /\ knownEnumTypes = {}
    /\ lines = <<>>
    /\ relations = <<>>
    /\ relationSet = {}
    /\ r = ""
    /\ i = 0
    /\ c1 = UndefinedNumber /\ c2 = UndefinedNumber
    /\ c3 = UndefinedNumber /\ c4 = UndefinedNumber
    /\ options = Str(PLANTUML_ENDPOINT)
    /\ pending = <<>>
    /\ reading = {}
    /\ calls = 0
    /\ \E path \in LayoutPaths, entities \in LayoutEntities :
          op = [name |-> "hold", root |-> LayoutRoot(path, entities), packageName |-> path]
    /\ ret = Return("")
    /\ prev = [op |-> NoOp, ret |-> Return("")]

\* generator.analyzePackageStructure(root, packageName)
AnalyzePackageStructure ==
    /\ calls < MaxCalls
    /\ ret' = ReturnObject(analyzePackageStructure(op.root, op.packageName))
    /\ op' = [op EXCEPT !.name = "analyzePackageStructure"]
    /\ Remember
    /\ UNCHANGED <<options, pending, reading>>
    /\ UNCHANGED <<parserVars, generatorVars, encoderVars>>

\* generator.findContentNamespace(root)
FindContentNamespace ==
    /\ calls < MaxCalls
    /\ ret' = ReturnObject(findContentNamespace(op.root))
    /\ op' = [op EXCEPT !.name = "findContentNamespace"]
    /\ Remember
    /\ UNCHANGED <<options, pending, reading>>
    /\ UNCHANGED <<parserVars, generatorVars, encoderVars>>

LayoutNext ==
    \/ AnalyzePackageStructure
    \/ FindContentNamespace

LayoutSpec == LayoutInit /\ [][LayoutNext]_vars

-----------------------------------------------------------------------------
(* The encoder module: its exported functions and encode64, called on the  *)
(* module's shared variables                                               *)

MaxDataLen == 4
MaxTextLen == 2

SampleBytes == {0, 75, 255}

\* the binary strings handed to encode64: every single byte, and the strings
\* of up to MaxDataLen sample bytes
DataInputs ==
    {<<b>> : b \in 0..255} \cup UNION {[1..n -> SampleBytes] : n \in 0..MaxDataLen}

\* a, e acute, the euro sign, and the two halves of a surrogate pair
SampleUnits == {97, 233, 8364, 55357, 56832}

\* no run of three bytes occurs twice in the byte string
NoRepeat3(bytes) ==
    \A a, b \in 1..(Len(bytes) - 2) :
        a < b => SubSeq(bytes, a, a + 2) # SubSeq(bytes, b, b + 2)

\* the texts handed to the encoder: the code unit sequences of up to
\* MaxTextLen sample units that leave the compressor no match to find, and
\* the start of a diagram
Texts ==
    {Text(u) : u \in {w \in UNION {[1..n -> SampleUnits] : n \in 0..MaxTextLen} :
                         Utf8Encode(w).ok => NoRepeat3(string2buf(Utf8Encode(w).v))}}
        \cup {Text(Units("@startuml\nA->B"))}

\* the environments, before the compressor of one has been handed anything
Envs ==
    {Env("works", FALSE, FALSE, <<>>), Env("throws", FALSE, FALSE, <<>>),
     Env("throws", TRUE, FALSE, <<>>), Env("absent", FALSE, FALSE, <<>>),
     Env("absent", TRUE, FALSE, <<>>), Env("absent", FALSE, TRUE, <<>>)}

\* what the compressor of env returns in compressAndEncode(text): pako gets
\* the binary string and makes bytes of it, js-deflate gets its characters
DeflatedOf(env, utf8) ==
    IF ~utf8.ok THEN <<>>
    ELSE IF env.pako = "works" THEN ZlibStream(string2buf(utf8.v))
    ELSE IF env.deflate \/ env.zip_deflate THEN ZlibStream(utf8.v)
    ELSE <<>>

\* the environment env while compressAndEncode(text) runs in it
EnvOf(env, text) ==
    [env EXCEPT !.deflated = DeflatedOf(env, Utf8Encode(ToUnits(text)))]

\* the environment env while encode(text) of plantumlEncoder.ts runs in it
EncodeEnvOf(env, text) ==
    [env EXCEPT !.deflated = IF env.pako = "works"
                             THEN ZlibStream(TextEncode(EncoderInput(text)))
                             ELSE <<>>]

\* the arguments of the JavaScript functions: a text or null
Arguments == Texts \cup {Null}

\* the endpoints handed to generatePlantUMLImageUrl
BaseUrls == {Str(PLANTUML_ENDPOINT), Str(""), Null}

\* encode of plantumlEncoder.ts imports pako, which works or throws
PakoEnvs == {env \in Envs : env.pako # "absent" /\ ~env.deflate}

\* the encoder's shared variables after a call that ended as res
EncoderBecomes(res) ==
    /\ r' = res.es.r
    /\ i' = res.es.i
    /\ c1' = res.es.c1 /\ c2' = res.es.c2 /\ c3' = res.es.c3 /\ c4' = res.es.c4
    /\ ret' = res.ret

\* encode64(data)
Encode64 ==
    /\ calls < MaxCalls
    /\ \E data \in DataInputs :
          /\ EncoderBecomes(ReturnR(encode64(data, EncoderState(r, i, c1, c2, c3, c4))))
          /\ op' = [name |-> "encode64", data |-> data]
    /\ Remember
    /\ UNCHANGED <<options, pending, reading>>
    /\ UNCHANGED <<parserVars, generatorVars>>

\* compressAndEncode(plantumlText) in an environment
CompressAndEncode ==
    /\ calls < MaxCalls
    /\ \E text \in Arguments, env \in Envs :
          /\ EncoderBecomes(compressAndEncode(text, EnvOf(env, text),
                                EncoderState(r, i, c1, c2, c3, c4)))
          /\ op' = [name |-> "compressAndEncode", text |-> text,
                    env |-> EnvOf(env, text)]
    /\ Remember
    /\ UNCHANGED <<options, pending, reading>>
    /\ UNCHANGED <<parserVars, generatorVars>>

\* generatePlantUMLImageUrl(plantumlText, baseUrl) in an environment
GeneratePlantUMLImageUrl ==
    /\ calls < MaxCalls
    /\ \E text \in Arguments, baseUrl \in BaseUrls, env \in Envs :
          /\ EncoderBecomes(generatePlantUMLImageUrl(text, baseUrl, EnvOf(env, text),
                                EncoderState(r, i, c1, c2, c3, c4)))
          /\ op' = [name |-> "generatePlantUMLImageUrl", text |-> text,
                    baseUrl |-> baseUrl, env |-> EnvOf(env, text)]
    /\ Remember
    /\ UNCHANGED <<options, pending, reading>>
    /\ UNCHANGED <<parserVars, generatorVars>>

\* encode(pumlText) of plantumlEncoder.ts; it keeps r, i, c1..c4 to itself
Encode ==
    /\ calls < MaxCalls
    /\ \E text \in Texts \cup {Undefined}, env \in PakoEnvs :
          /\ ret' = encode(text, EncodeEnvOf(env, text))
          /\ op' = [name |-> "encode", text |-> text, env |-> EncodeEnvOf(env, text)]
    /\ Remember
    /\ UNCHANGED <<options, pending, reading>>
    /\ UNCHANGED <<parserVars, generatorVars, encoderVars>>

EncoderNext ==
    \/ Encode64
    \/ CompressAndEncode
    \/ GeneratePlantUMLImageUrl
    \/ Encode

EncoderSpec == Init /\ [][EncoderNext]_vars

-----------------------------------------------------------------------------
(* generateDiagramUrl on instances constructed with and without an         *)
(* endpoint of their own                                                   *)

CustomEndpoint == "https://custom.plantuml.server"

\* the values an options object holds under plantumlEndpoint
EndpointValues == {Null, Str(""), Num(7), Str(CustomEndpoint), Str("https://own.server/")}

\* the options of a call: none, null, values that are no objects, objects
\* without and with the key
CallOptions ==
    {Undefined, Null, Str("invalid"), Num(5), EmptyOptions}
        \cup {Options({"plantumlEndpoint"}, e) : e \in EndpointValues}

\* the options of new Proto2Diagram(options)
ConstructorOptions ==
    {EmptyOptions, Options({"plantumlEndpoint"}, Null),
     Options({"plantumlEndpoint"}, Str("https://own.server/"))}

\* the schemas of the calls: one message, with and without a package
UrlContents ==
    {Content(Null, NoParse), Content(Str("hello world"), NoParse),
     Content(Str(ValidText), Schema(Undefined, <<UserType>>)),
     Content(Str(ValidText), Schema(Str("shop"), <<UserType>>))}

\* the environments in which the token of a whole diagram is the hexadecimal
\* one: no compressor, or a pako that throws
HexEnvs == {env \in Envs : env.pako # "works" /\ ~env.deflate /\ ~env.zip_deflate}

UrlInit ==
    /\ knownTypes = {}
    /\ knownEnumTypes = {}
    /\ lines = <<>>
    /\ relations = <<>>
    /\ relationSet = {}
    /\ r = ""
    /\ i = 0
    /\ c1 = UndefinedNumber /\ c2 = UndefinedNumber
    /\ c3 = UndefinedNumber /\ c4 = UndefinedNumber
    /\ \E o \in ConstructorOptions : options = constructor(o)
    /\ pending = <<>>
    /\ reading = {}
    /\ calls = 0
    /\ op = NoOp
    /\ ret = Return("")
    /\ prev = [op |-> NoOp, ret |-> Return("")]

\* the instance's variables after a call of generateDiagramUrl that ended as res
DiagramBecomes(res) ==
    /\ knownTypes' = res.ps.kt
    /\ knownEnumTypes' = res.ps.ket
    /\ lines' = res.gs.lines
    /\ relations' = res.gs.relations
    /\ relationSet' = res.gs.relationSet
    /\ EncoderBecomes(res)

\* await lib.generateDiagramUrl(protoContent, options)
GenerateDiagramUrl ==
    /\ calls < MaxCalls
    /\ \E c \in UrlContents, o \in CallOptions, env \in HexEnvs :
          /\ DiagramBecomes(generateDiagramUrl(c.protoContent, c.parsed, o, options, env,
                                 ParserState(knownTypes, knownEnumTypes),
                                 GeneratorState(lines, relations, relationSet),
                                 EncoderState(r, i, c1, c2, c3, c4)))
          /\ op' = [name |-> "generateDiagramUrl", content |-> c, options |-> o, env |-> env]
    /\ Remember
    /\ UNCHANGED <<options, pending, reading>>

\* the objects handed to updateConfig: none, values that are no objects,
\* objects without the key and with each value under it
ConfigInputs ==
    {Undefined, Null, Str("invalid"), EmptyOptions,
     Options({"plantumlEndpoint"}, Undefined)}
        \cup {Options({"plantumlEndpoint"}, e) : e \in EndpointValues}

\* lib.getConfig()
GetConfig ==
    /\ calls < MaxCalls
    /\ ret' = getConfig(options)
    /\ op' = [name |-> "getConfig"]
    /\ Remember
    /\ UNCHANGED <<options, pending, reading>>
    /\ UNCHANGED <<parserVars, generatorVars, r, i, c1, c2, c3, c4>>

\* lib.updateConfig(newOptions)
UpdateConfig ==
    /\ calls < MaxCalls
    /\ \E newOptions \in ConfigInputs :
          LET res == updateConfig(newOptions, options)
          IN  /\ options' = res.options
              /\ ret' = res.ret
              /\ op' = [name |-> "updateConfig", options |-> newOptions]
    /\ Remember
    /\ UNCHANGED <<pending, reading>>
    /\ UNCHANGED <<parserVars, generatorVars, r, i, c1, c2, c3, c4>>

\* the contents and the options of the static calls: a content that is
\* refused and one that gives a diagram; no options, null, a value that is no
\* object, and an endpoint that is null or a string
StaticContents ==
    {Content(Null, NoParse), Content(Str(ValidText), Schema(Undefined, <<UserType>>))}

StaticOptions ==
    {Undefined, Null, Str("invalid"), Options({"plantumlEndpoint"}, Null),
     Options({"plantumlEndpoint"}, Str(CustomEndpoint))}

\* Proto2Diagram.generateDiagram(protoContent, options) up to the promise
\* it hands back: rejected by a throw before the await, pending otherwise
GenerateDiagram ==
    /\ calls < MaxCalls
    /\ \E c \in StaticContents, o \in StaticOptions, env \in HexEnvs :
          LET res == generateDiagram(c.protoContent, c.parsed, o, env,
                                     EncoderState(r, i, c1, c2, c3, c4))
          IN  /\ r' = res.es.r
              /\ i' = res.es.i
              /\ c1' = res.es.c1 /\ c2' = res.es.c2
              /\ c3' = res.es.c3 /\ c4' = res.es.c4
              /\ ret' = IF res.awaits THEN ReturnObject([promise |-> "pending"])
                        ELSE res.ret
              /\ reading' = IF res.awaits
                            THEN reading \cup {[call |-> calls + 1, result |-> res.ret]}
                            ELSE reading
              /\ op' = [name |-> "generateDiagram", content |-> c, options |-> o,
                        env |-> env]
    /\ Remember
    /\ UNCHANGED <<options, pending>>
    /\ UNCHANGED <<parserVars, generatorVars>>

\* a call of generateDiagram goes on after its await and settles its promise
\* to what the promise of its instance settled to, whatever was called
\* meanwhile
GenerateDiagramResume ==
    /\ \E w \in reading :
          /\ ret' = w.result
          /\ reading' = reading \ {w}
          /\ op' = [name |-> "generateDiagram.resume", call |-> w.call]
    /\ prev' = [op |-> op, ret |-> ret]
    /\ UNCHANGED <<calls, options, pending>>
    /\ UNCHANGED <<parserVars, generatorVars, encoderVars>>

UrlNext ==
    \/ GenerateDiagramUrl
    \/ GetConfig
    \/ UpdateConfig
    \/ GenerateDiagram
    \/ GenerateDiagramResume

UrlSpec == UrlInit /\ [][UrlNext]_vars

-----------------------------------------------------------------------------
(* generatePlantUMLCode one entry at a time: the recursion of collectTypes *)
(* (src/src/protoParser.js) and of processNamespace (src/src/index.js)     *)
(* unfolded into the stack of entries the running call has still to visit. *)
(* A frame holds the entry, the parentName its visit is called with and    *)
(* the prefixes the enclosing catch blocks put before an error.            *)

Frame(kind, node, parentName, wrap) ==
    [kind |-> kind, node |-> node, parentName |-> parentName, wrap |-> wrap]

\* for (const [key, value] of Object.entries(namespace.nested)), in order
FramesOf(kind, nested, parentName, wrap) ==
    [k \in 1..Len(nested) |-> Frame(kind, nested[k], parentName, wrap)]

\* the entries a visit of collectTypes goes on to, were it to follow a field
\* whose type is the message itself as well
CollectChildren_FollowFields(value) ==
    IF value.kind \in {"null", "enum"} THEN <<>>
    ELSE IF value.kind = "msg"
            /\ \E k \in 1..Len(value.fieldsArray) : value.fieldsArray[k].type = value.name
    THEN value.nested \o <<value>>
    ELSE value.nested

\* the entries a visit of collectTypes goes on to: those of value.nested for
\* a message and for what is neither a message nor an enum, none for an enum
CollectChildren(value) ==
    IF value.kind \in {"null", "enum"} THEN <<>>
    ELSE value.nested

\* the parentName collectTypes hands on to the entries below value
CollectParent(value, parentName) ==
    IF value.kind = "msg" THEN value.name ELSE parentName

\* one entry of collectTypes without the calls it makes for the entries below
collectVisit(value, parentName, ps) ==
    IF value.kind = "null" THEN ps
    ELSE IF value.kind = "msg" THEN collectMessageType_NoNested(value, value.key, ps)
    ELSE IF value.kind = "enum" THEN collectEnumType(value, parentName, value.key, ps)
    ELSE ps

\* processMessageType up to the call it makes for the nested types
processMessageHead(messageType, kt, ket, gs) ==
    IF messageType.name = "" THEN Raise(gs, "Message type must have a valid name")
    ELSE processOneofNotes(messageType,
           PushLine(
             processFields(messageType.fieldsArray, 1, messageType.name, kt, ket,
               PushLine(OpenComponent(messageType, gs),
                        "object " \o messageType.name \o " {")),
             "}"))

\* one entry of processNamespace without the calls it makes for the entries
\* below
processVisit(value, parentName, kt, ket, gs) ==
    IF value.kind = "msg" THEN processMessageHead(value, kt, ket, gs)
    ELSE IF value.kind = "enum" THEN processEnumType(value, parentName, gs)
    ELSE IF value.kind = "svc" THEN processServiceType(value, gs)
    ELSE gs

\* the entries a visit of processNamespace goes on to, and what is left to do
\* for value once they are done
ProcessChildren(value, parentName, wrap) ==
    IF value.kind = "msg"
    THEN FramesOf("process", value.nested, "", wrap) \o <<Frame("close", value, "", wrap)>>
    ELSE IF value.kind \in {"enum", "svc", "null"} THEN <<>>
    ELSE FramesOf("process", value.nested, parentName, wrap)

\* the calls of processNamespaceFlat: the messages, the enums and the
\* services collectAllContent finds below ns, each processed without a
\* parent name and outside the try block of processNamespace
FlatFrames(ns) ==
    LET allContent == collectAllContent(ns)
    IN  FramesOf("flat", allContent.messages \o allContent.enums \o allContent.services,
                 "", "")

\* what generateFromRoot(root, packageName) has to do after the reset: the
\* line it pushes first, if any, and the entries it goes on to
GeneratePlan(root, packageName) ==
    IF Truthy(packageName) /\ Trim(packageName.v) # ""
    THEN LET packageInfo == analyzePackageStructure(root, packageName.v)
         IN  IF packageInfo.shouldUsePackage
             THEN [push |-> <<"package \"" \o packageInfo.displayName \o "\" {">>,
                   frames |-> FlatFrames(packageInfo.targetNamespace)
                                  \o <<Frame("unwrap", root, "", "")>>]
             ELSE [push |-> <<>>,
                   frames |-> FramesOf("process", packageInfo.targetNamespace.nested, "", "")]
    ELSE [push |-> <<>>, frames |-> FramesOf("process", root.nested, "", "")]

\* the number of entries in the nested maps of the tree under ns
RECURSIVE EntryCount(_)
RECURSIVE EntryCountFrom(_, _)
EntryCountFrom(nested, k) ==
    IF k > Len(nested) THEN 0
    ELSE 1 + EntryCount(nested[k]) + EntryCountFrom(nested, k + 1)

EntryCount(ns) == IF ns.kind = "null" THEN 0 ELSE EntryCountFrom(ns.nested, 1)

NodeType ==
    Type("Node", <<PlainField("value", "string"), PlainField("parent", "Node"),
                   RepeatedField("children", "Node")>>, <<>>, <<>>)

PingType == Type("Ping", <<PlainField("pong", "Pong")>>, <<>>, <<>>)
PongType == Type("Pong", <<PlainField("ping", "Ping")>>, <<>>, <<>>)

TreeType ==
    Type("Tree", <<PlainField("root", "Tree"), RepeatedField("leaves", "Leaf")>>, <<>>,
         <<Type("Leaf", <<PlainField("tree", "Tree"), PlainField("next", "Leaf")>>,
                <<>>, <<>>),
           Enum("Kind", <<"OAK", "ELM">>)>>)

\* an enum that holds an entry of its own, which no schema text parses to
CrowdedEnum ==
    Node("enum", "Crowded", "Crowded", <<PingType>>, <<>>, <<>>, <<"A">>, TRUE, <<>>, FALSE)

WalkRoots ==
    {Root(<<NodeType>>),
     Root(<<PingType, PongType>>),
     Root(<<TreeType, UserType>>),
     Root(<<Namespace("common", <<StatusEnum, NodeType>>), UserService>>),
     Root(<<CrowdedEnum, PongType>>),
     Root(<<>>)}
        \cup MalformedRoots

\* what protobuf.parse makes of the texts of the calls: the trees without a
\* package, a package of one part, one whose name has a meaning, one
\* with content on two levels, and one that declares nothing
WalkSchemas ==
    {Parsed(Obj(root), Undefined) : root \in WalkRoots}
        \cup {Schema(Str("shop"), <<NodeType>>),
              Schema(Str("api"), <<PingType, StatusEnum, PongType>>),
              Schema(Str("shop"), <<PingType, Namespace("inner", <<PongType, StatusEnum>>)>>),
              Schema(Str("api"), <<>>)}

Walking == pending # <<>>

WalkInit == Init

\* generatePlantUMLCode(protoContent) for a text that parses to root, up to
\* the first entry of collectTypes
WalkStart ==
    /\ calls < MaxCalls
    /\ ~Walking
    /\ \E parsed \in WalkSchemas :
          /\ pending' = FramesOf("collect", parsed.root.o.nested, "", "")
                            \o <<Frame("generate", parsed.root.o, "", "")>>
          /\ op' = [name |-> "generatePlantUMLCode", root |-> parsed.root.o,
                    packageName |-> parsed.package, visits |-> 0]
    /\ knownTypes' = {}
    /\ knownEnumTypes' = {}
    /\ ret' = Return("")
    /\ Remember
    /\ UNCHANGED <<generatorVars, encoderVars, options, reading>>

\* the call ends by throwing
WalkThrows(message) ==
    /\ pending' = <<>>
    /\ ret' = generateCatch(Throw(message))

\* one entry of the for loop of collectTypes
CollectStep ==
    /\ Walking
    /\ Head(pending).kind = "collect"
    /\ LET f == Head(pending)
           wrap == f.wrap \o "Failed to collect types from '" \o f.node.key \o "': "
           ps == collectVisit(f.node, f.parentName, ParserState(knownTypes, knownEnumTypes))
       IN  /\ knownTypes' = ps.kt
           /\ knownEnumTypes' = ps.ket
           /\ IF ps.err # ""
              THEN WalkThrows("Failed to collect protobuf types: " \o wrap \o ps.err)
              ELSE /\ pending' = FramesOf("collect", CollectChildren(f.node),
                                          CollectParent(f.node, f.parentName), wrap)
                                     \o Tail(pending)
                   /\ ret' = ret
    /\ op' = [op EXCEPT !.visits = @ + 1]
    /\ UNCHANGED <<generatorVars, encoderVars, options, reading, calls, prev>>

\* generateFromRoot(root, packageName) up to the first entry it processes:
\* the reset, the package analysis and the opening line of the package block
GenerateStep ==
    /\ Walking
    /\ Head(pending).kind = "generate"
    /\ LET gs == ResetGenerator(GeneratorState(lines, relations, relationSet))
           plan == GeneratePlan(Head(pending).node, op.packageName)
       IN  /\ lines' = gs.lines \o plan.push
           /\ relations' = gs.relations
           /\ relationSet' = gs.relationSet
           /\ pending' = plan.frames \o <<Frame("end", Head(pending).node, "", "")>>
    /\ UNCHANGED <<parserVars, encoderVars, options, reading, calls, op, ret, prev>>

\* one entry of the for loop of processNamespace, or one call of the
\* forEach loops of processNamespaceFlat, which have no catch block
ProcessStep ==
    /\ Walking
    /\ Head(pending).kind \in {"process", "flat"}
    /\ LET f == Head(pending)
           wrap == IF f.kind = "flat" THEN f.wrap
                   ELSE f.wrap \o "Failed to process " \o f.node.key \o ": "
           gs == processVisit(f.node, f.parentName, knownTypes, knownEnumTypes,
                              GeneratorState(lines, relations, relationSet))
       IN  /\ lines' = gs.lines
           /\ relations' = gs.relations
           /\ relationSet' = gs.relationSet
           /\ IF gs.err # ""
              THEN WalkThrows("Failed to process protobuf namespace: " \o wrap \o gs.err)
              ELSE /\ pending' = ProcessChildren(f.node, f.parentName, wrap) \o Tail(pending)
                   /\ ret' = ret
    /\ op' = [op EXCEPT !.visits = @ + 1]
    /\ UNCHANGED <<parserVars, encoderVars, options, reading, calls, prev>>

\* processMessageType after the call it makes for the nested types, or
\* generateFromRoot after processNamespaceFlat: the closing line
CloseStep ==
    /\ Walking
    /\ Head(pending).kind \in {"close", "unwrap"}
    /\ lines' = IF Head(pending).kind = "unwrap"
                THEN PushLine(GeneratorState(lines, relations, relationSet), "}").lines
                ELSE CloseComponent(Head(pending).node,
                                    GeneratorState(lines, relations, relationSet)).lines
    /\ pending' = Tail(pending)
    /\ UNCHANGED <<parserVars, relations, relationSet, encoderVars, options, reading, calls, op,
                   ret, prev>>

\* generateFromRoot after its try block: the edges, the end marker, the text
WalkEnd ==
    /\ Walking
    /\ Head(pending).kind = "end"
    /\ LET g == generateFromRootEnd(GeneratorState(lines, relations, relationSet))
       IN  /\ lines' = g.gs.lines
           /\ ret' = generateCatch(g.ret)
    /\ pending' = Tail(pending)
    /\ UNCHANGED <<parserVars, relations, relationSet, encoderVars, options, reading, calls, op,
                   prev>>

WalkNext ==
    \/ WalkStart
    \/ CollectStep
    \/ GenerateStep
    \/ ProcessStep
    \/ CloseStep
    \/ WalkEnd

WalkSpec == WalkInit /\ [][WalkNext]_vars

\* the steps of a call that has begun
WalkRun == CollectStep \/ GenerateStep \/ ProcessStep \/ CloseStep \/ WalkEnd

\* the call is synchronous: once begun, its next step is taken
WalkFairSpec == WalkSpec /\ WF_vars(WalkRun)

-----------------------------------------------------------------------------
(* The relationship kind and the cardinality of a field                    *)

\* C1: getRelationshipType returns the reference kind (AGGREGATION) exactly
\* when its argument is a name in the enumeration-name set, and the
\* containment kind (COMPOSITION) for a message name, an unknown name, null
\* and a value that is not a string.
C1_RelationshipKind ==
    op.name = "getRelationshipType" =>
        ret = Return(IF IsString(op.resolvedType) /\ op.resolvedType.v \in knownEnumTypes
                     THEN AGGREGATION
                     ELSE COMPOSITION)

\* C2: getCardinality is decided by the flags alone: MULTIPLE exactly when
\* the field is present and map or repeated is set, OPTIONAL exactly when it
\* is present, neither is set and the rule is "optional" or the field belongs
\* to a oneof, REQUIRED in every other case, an absent field included.
C2_Cardinality ==
    op.name = "getCardinality" =>
        /\ ret.ok
        /\ ret.v \in {MULTIPLE, OPTIONAL, REQUIRED}
        /\ ret.v = MULTIPLE <=>
              /\ op.field # Null
              /\ op.field.o.map \/ op.field.o.repeated
        /\ ret.v = OPTIONAL <=>
              /\ op.field # Null
              /\ ~op.field.o.map /\ ~op.field.o.repeated
              /\ op.field.o.rule = "optional" \/ op.field.o.partOf # ""

\* a repeated member of a oneof with the optional rule was given MULTIPLE
C2_Witness ==
    /\ op.name = "getCardinality"
    /\ op.field # Null
    /\ op.field.o.repeated /\ op.field.o.rule = "optional" /\ op.field.o.partOf # ""
    /\ ret = Return(MULTIPLE)

-----------------------------------------------------------------------------
(* The edge list of one generation call                                    *)

Range(seq) == {seq[k] : k \in 1..Len(seq)}

\* seq without the repetitions of its elements, in the order of their first
\* occurrence
RECURSIVE KeepFirstFrom(_, _, _)
KeepFirstFrom(seq, k, kept) ==
    IF k > Len(seq) THEN kept
    ELSE KeepFirstFrom(seq, k + 1,
             IF seq[k] \in Range(kept) THEN kept ELSE Append(kept, seq[k]))

KeepFirst(seq) == KeepFirstFrom(seq, 1, <<>>)

EndsWith(str, suffix) ==
    /\ Len(str) >= Len(suffix)
    /\ SubSeq(str, Len(str) - Len(suffix) + 1, Len(str)) = suffix

\* the last call generated a diagram
Generated == op.name = "generatePlantUMLCode" /\ ret.ok

\* the entities at the top of the schema of the last call
TopEntities == op.content.parsed.root.o.nested

\* the last call generated the diagram of a schema without package whose
\* first message is Container, with fields of the known types User and Status
ContainerCall ==
    /\ Generated
    /\ Len(TopEntities) > 0
    /\ TopEntities[1].kind = "msg" /\ TopEntities[1].name = "Container"

ContainerFields == TopEntities[1].fieldsArray

\* the edge that one field of Container asks for
ContainerEdge(field) ==
    "Container " \o getRelationshipType(Str(field.type), knownEnumTypes)
                 \o " " \o getCardinality(Obj(field)) \o " " \o field.type

\* the last call generated the diagram of the schema User, Status, UserService
ServiceCall ==
    /\ Generated
    /\ Len(TopEntities) = 3
    /\ TopEntities[3].kind = "svc"

\* the edges that the RPCs of the service ask for, request before response
ServiceEdges(service) ==
    [k \in 1..(2 * Len(service.methods)) |->
        service.name \o " --> " \o
        (IF k % 2 = 1
         THEN OrUnknown(service.methods[(k + 1) \div 2].requestType)
         ELSE OrUnknown(service.methods[k \div 2].responseType))]

\* C3: the edge list never holds the same line twice, and after a generation
\* call it is the list of the edges that the fields (or the RPCs) asked for,
\* each kept once at the place of its first request.
C3_NoDuplicateEdges ==
    /\ \A a, b \in 1..Len(relations) : a # b => relations[a] # relations[b]
    /\ Range(relations) = relationSet
    /\ ContainerCall =>
          relations = KeepFirst([k \in 1..Len(ContainerFields) |->
                                    ContainerEdge(ContainerFields[k])])
    /\ ServiceCall => relations = KeepFirst(ServiceEdges(TopEntities[3]))

\* the first and the third field of Container asked for the same edge, the
\* second for another one, and the list holds two edges
C3_Witness ==
    /\ ContainerCall
    /\ Len(ContainerFields) = 3
    /\ ContainerEdge(ContainerFields[1]) = ContainerEdge(ContainerFields[3])
    /\ ContainerEdge(ContainerFields[1]) # ContainerEdge(ContainerFields[2])
    /\ Len(relations) = 2

\* Container has a plain, a repeated and an optional field of type User
ThreeCardinalities ==
    /\ ContainerCall
    /\ \E k \in 1..Len(ContainerFields) :
          /\ ContainerFields[k].type = "User"
          /\ ~ContainerFields[k].repeated /\ ContainerFields[k].rule = ""
    /\ \E k \in 1..Len(ContainerFields) :
          ContainerFields[k].type = "User" /\ ContainerFields[k].repeated
    /\ \E k \in 1..Len(ContainerFields) :
          ContainerFields[k].type = "User" /\ ContainerFields[k].rule = "optional"

\* the edges from Container to User, in the order of the edge list
ContainerToUser ==
    SelectSeq(relations, LAMBDA e : StartsWith(e, "Container ") /\ EndsWith(e, " User"))

\* C4: a plain, a repeated and an optional field of one message with the
\* same known target type leave three edges from the message to the target,
\* one with each of the cardinalities REQUIRED, MULTIPLE and OPTIONAL.
C4_CardinalitiesKept ==
    ThreeCardinalities =>
        /\ Len(ContainerToUser) = 3
        /\ \A card \in {REQUIRED, MULTIPLE, OPTIONAL} :
              Cardinality({k \in 1..3 :
                  EndsWith(ContainerToUser[k], " " \o card \o " User")}) = 1

C4_Witness == ThreeCardinalities /\ Len(relations) = 3

-----------------------------------------------------------------------------
(* The frame of the diagram text                                           *)

\* the places in a text where a line equal to the given one starts
LinePlaces(text, line) ==
    {k \in 1..(Len(text) - Len(line) + 1) :
        /\ SubSeq(text, k, k + Len(line) - 1) = line
        /\ k = 1 \/ CharAt(text, k - 1) = "\n"
        /\ k + Len(line) - 1 = Len(text) \/ CharAt(text, k + Len(line)) = "\n"}

\* C5: the text that a generation call returns starts with the line
\* @startuml and ends with the line @enduml, holds each of them once, and has
\* the pragma and the skinparam line as its second and third line.
C5_Markers ==
    Generated =>
        /\ StartsWith(ret.v, "@startuml\n!pragma useIntermediatePackages false\n"
                                 \o "skinparam componentStyle rectangle\n")
        /\ LinePlaces(ret.v, "@startuml") = {1}
        /\ LinePlaces(ret.v, "@enduml") = {Len(ret.v) - Len("@enduml") + 1}

\* a diagram with entity blocks and edges was returned
C5_Witness ==
    /\ Generated
    /\ Len(relations) > 0
    /\ LinePlaces(ret.v, "object User {") # {}

\* the text of the last call opens a package wrapper
Wrapped == Generated /\ \E k \in 1..Len(lines) : StartsWith(lines[k], "package \"")

\* C6: when a package wrapper is emitted, the edges come before the
\* wrapper's closing line, which is the line right before @enduml.
C6_EdgesInsideWrapper ==
    Wrapped =>
        /\ lines[Len(lines) - 1] = "}"
        /\ \A k \in 1..Len(lines) : lines[k] \in relationSet => k < Len(lines) - 1

-----------------------------------------------------------------------------
(* Calls on a reused instance                                              *)

\* what a newly constructed Proto2Diagram makes of the input of the last call
FreshCall ==
    generatePlantUMLCode(op.content.protoContent, op.content.parsed,
                         ParserState({}, {}), GeneratorState(<<>>, <<>>, {}))

\* C7: a generation call on a reused instance returns (or throws) what a new
\* instance returns for the same input, and after a call that returned, the
\* known names, the lines and the edges are those of the new instance.
C7_CallsIndependent ==
    op.name = "generatePlantUMLCode" =>
        /\ ret = FreshCall.ret
        /\ ret.ok =>
              /\ knownTypes = FreshCall.ps.kt
              /\ knownEnumTypes = FreshCall.ps.ket
              /\ lines = FreshCall.gs.lines
              /\ relations = FreshCall.gs.relations
              /\ relationSet = FreshCall.gs.relationSet

\* a call that failed after it had emitted lines and edges was followed by a
\* call for another schema that returned a diagram with edges
C7_Witness ==
    /\ Generated
    /\ Len(relations) > 0
    /\ prev.op.name = "generatePlantUMLCode"
    /\ ~prev.ret.ok
    /\ StartsWith(prev.ret.message,
                  "Failed to generate PlantUML code: Failed to process protobuf namespace")

-----------------------------------------------------------------------------
(* The token alphabet and the packing of three bytes into four characters  *)

\* the character of each 6-bit value 0..63, in order
Alphabet == "0123456789ABCDEFGHIJKLMNOPQRSTUVWXYZabcdefghijklmnopqrstuvwxyz-_"

\* byte k of the data, zero past its end
ByteAt(data, k) == IF k <= Len(data) THEN data[k] ELSE 0

\* the four 6-bit values of the group of three bytes that starts after byte k
SixBits(data, k) ==
    <<ByteAt(data, k + 1) \div 4,
      (ByteAt(data, k + 1) % 4) * 16 + (ByteAt(data, k + 2) \div 16),
      (ByteAt(data, k + 2) % 16) * 4 + (ByteAt(data, k + 3) \div 64),
      ByteAt(data, k + 3) % 64>>

\* C8: encode64 returns 4 * ceil(n / 3) characters for n bytes; the four
\* characters of each group of up to three bytes, padded with zero bytes, are
\* those of the 6-bit values b1>>2, (b1&3)<<4 | b2>>4, (b2&15)<<2 | b3>>6 and
\* b3&63 in the alphabet 0-9, A-Z, a-z, -, _; no character is "?".
C8_Encode64 ==
    op.name = "encode64" =>
        /\ ret.ok
        /\ Len(ret.v) = 4 * ((Len(op.data) + 2) \div 3)
        /\ \A g \in 0..(((Len(op.data) + 2) \div 3) - 1) : \A j \in 1..4 :
              CharAt(ret.v, 4 * g + j) = CharAt(Alphabet, SixBits(op.data, 3 * g)[j] + 1)
        /\ \A k \in 1..Len(ret.v) : CharAt(ret.v, k) # "?"

\* four bytes, the last one a group of its own padded with two zero bytes
C8_Witness ==
    /\ op.name = "encode64"
    /\ op.data = <<75, 255, 0, 255>>
    /\ ret = Return("I_y0_m00")
    /\ prev.op.name = "encode64"

-----------------------------------------------------------------------------
(* The way back from a token to the text                                   *)

\* the 6-bit value of a character of the alphabet
DecodeChar(ch) == (CHOOSE k \in 1..64 : CharAt(Alphabet, k) = ch) - 1

\* the three bytes packed into four 6-bit values
Unpack(v1, v2, v3, v4) ==
    <<v1 * 4 + (v2 \div 16), (v2 % 16) * 16 + (v3 \div 4), (v3 % 4) * 64 + v4>>

\* the bytes of a token, characters taken four at a time
RECURSIVE Decode64(_)
Decode64(token) ==
    IF Len(token) < 4 THEN <<>>
    ELSE Unpack(DecodeChar(CharAt(token, 1)), DecodeChar(CharAt(token, 2)),
                DecodeChar(CharAt(token, 3)), DecodeChar(CharAt(token, 4)))
         \o Decode64(SubSeq(token, 5, Len(token)))

\* the bits of a byte string, the lowest bit of each byte first
RECURSIVE UnpackBits(_)
UnpackBits(bytes) ==
    IF Len(bytes) = 0 THEN <<>>
    ELSE [k \in 1..8 |-> (Head(bytes) \div (2 ^ (k - 1))) % 2] \o UnpackBits(Tail(bytes))

\* the number whose n bits, most significant first, start at bit k
RECURSIVE BitsValue(_, _, _)
BitsValue(bits, k, n) ==
    IF n = 0 THEN 0 ELSE 2 * BitsValue(bits, k, n - 1) + bits[k + n - 1]

\* the literals of a block in the fixed Huffman code from bit k on, up to the
\* end-of-block code; -1 stands for a code that is no literal
RECURSIVE InflateFixed(_, _, _)
InflateFixed(bits, k, out) ==
    IF BitsValue(bits, k, 7) = 0 THEN out
    ELSE IF BitsValue(bits, k, 7) <= 23 THEN Append(out, -1)
    ELSE IF BitsValue(bits, k, 8) >= 48 /\ BitsValue(bits, k, 8) <= 191
    THEN InflateFixed(bits, k + 8, Append(out, BitsValue(bits, k, 8) - 48))
    ELSE IF BitsValue(bits, k, 8) <= 199 THEN Append(out, -1)
    ELSE InflateFixed(bits, k + 9, Append(out, BitsValue(bits, k, 9) - 256))

\* raw INFLATE of a stream that is one final block, stored or in the fixed
\* code; what follows the block is not read
Inflate(bytes) ==
    IF bytes[1] % 8 = 1 THEN SubSeq(bytes, 6, 5 + bytes[2] + 256 * bytes[3])
    ELSE IF bytes[1] % 8 = 3 THEN InflateFixed(UnpackBits(bytes), 4, <<>>)
    ELSE <<-1>>

\* the UTF-16 code units of the code point cp
UnitsOfCodePoint(cp) ==
    IF cp < 65536 THEN <<cp>>
    ELSE <<55296 + ((cp - 65536) \div 1024), 56320 + ((cp - 65536) % 1024)>>

\* the text of a UTF-8 byte string
RECURSIVE Utf8Decode(_)
Utf8Decode(bytes) ==
    IF Len(bytes) = 0 THEN <<>>
    ELSE IF bytes[1] < 128 THEN <<bytes[1]>> \o Utf8Decode(SubSeq(bytes, 2, Len(bytes)))
    ELSE IF bytes[1] < 224
    THEN <<(bytes[1] - 192) * 64 + (bytes[2] - 128)>>
         \o Utf8Decode(SubSeq(bytes, 3, Len(bytes)))
    ELSE IF bytes[1] < 240
    THEN <<(bytes[1] - 224) * 4096 + (bytes[2] - 128) * 64 + (bytes[3] - 128)>>
         \o Utf8Decode(SubSeq(bytes, 4, Len(bytes)))
    ELSE UnitsOfCodePoint((bytes[1] - 240) * 262144 + (bytes[2] - 128) * 4096
                              + (bytes[3] - 128) * 64 + (bytes[4] - 128))
         \o Utf8Decode(SubSeq(bytes, 5, Len(bytes)))

\* C9: the way back recovers the input: the bytes of a token of encode64 are
\* the bytes encoded, followed by at most two zero bytes, and the bytes of a
\* deflate token of compressAndEncode, decompressed and read as UTF-8, are
\* the text.
C9_RoundTrip ==
    /\ op.name = "encode64" =>
          Decode64(ret.v) \in {op.data, op.data \o <<0>>, op.data \o <<0, 0>>}
    /\ (op.name = "compressAndEncode" /\ ret.ok /\ ret.o.type = "deflate") =>
          Utf8Decode(Inflate(Decode64(ret.o.data))) = ToUnits(op.text)

-----------------------------------------------------------------------------
(* The fallback encoding and its marker                                    *)

\* the environment offers no compression at all
NoCompression(env) == env.pako = "absent" /\ ~env.deflate /\ ~env.zip_deflate

\* two hexadecimal digits for each byte
RECURSIVE TwoDigitsEach(_)
TwoDigitsEach(bytes) ==
    IF Len(bytes) = 0 THEN ""
    ELSE CharAt(HexDigits, (Head(bytes) \div 16) + 1)
         \o CharAt(HexDigits, (Head(bytes) % 16) + 1) \o TwoDigitsEach(Tail(bytes))

\* what follows the base URL in the URL returned
Payload == SubSeq(ret.v, Len(StringOf(op.baseUrl)) + 1, Len(ret.v))

\* C10: without any compression capability the result is the hex encoding
\* of the UTF-8 bytes, tagged "hex", and the URL is baseUrl + "~h" + data;
\* with a compression capability the result is tagged "deflate" and the URL
\* is baseUrl + data; the marker is there exactly when the payload is hex.
C10_FallbackMarker ==
    /\ (op.name = "compressAndEncode" /\ ret.ok) =>
          IF NoCompression(op.env)
          THEN ret.o = Encoded(TwoDigitsEach(Utf8Encode(ToUnits(op.text)).v), "hex")
          ELSE ret.o.type = "deflate"
    /\ (op.name = "generatePlantUMLImageUrl" /\ ret.ok) =>
          /\ StartsWith(ret.v, StringOf(op.baseUrl))
          /\ IF NoCompression(op.env)
             THEN Payload = "~h" \o TwoDigitsEach(Utf8Encode(ToUnits(op.text)).v)
             ELSE /\ ~StartsWith(Payload, "~h")
                  /\ \A k \in 1..Len(Payload) :
                        \E v \in 1..64 : CharAt(Payload, k) = CharAt(Alphabet, v)

-----------------------------------------------------------------------------
(* A compression step that throws, and arguments that are null or empty    *)

\* the call reached its compression step and pako.deflateRaw threw there
CompressionThrew ==
    /\ op.name \in {"compressAndEncode", "generatePlantUMLImageUrl", "encode"}
    /\ op.env.pako = "throws"
    /\ (op.name = "encode" \/ Utf8Encode(ToUnits(op.text)).ok)

\* C11: when the compression step throws, the call of the encoder fails with
\* an error that wraps the cause in a message of its own; it returns no
\* token, neither a truncated one nor one in another encoding.
C11_CompressionFailure ==
    CompressionThrew =>
        /\ ~ret.ok
        /\ ret.message # PakoError
        /\ EndsWith(ret.message, PakoError)

\* null or the empty string, as a text and as an endpoint
NoText(x) == x.t = "null" \/ x.u = <<>>
NoEndpoint(x) == x.t = "null" \/ x.v = ""

\* C12: generatePlantUMLImageUrl throws when the text or the endpoint is
\* null or the empty string, and compressAndEncode throws when its input is
\* null or the empty string.
C12_InvalidArguments ==
    /\ (op.name = "generatePlantUMLImageUrl"
            /\ (NoText(op.text) \/ NoEndpoint(op.baseUrl))) => ~ret.ok
    /\ (op.name = "compressAndEncode" /\ NoText(op.text)) => ~ret.ok

-----------------------------------------------------------------------------
(* The names classification knows                                          *)

\* the messages and enumerations declared in a nested map or below it, each
\* with the name of the message that holds it ("" for none)
RECURSIVE Declared(_, _)
Declared(nested, parent) ==
    UNION {(IF n.kind \in {"msg", "enum"}
            THEN {[kind |-> n.kind, name |-> n.name, parent |-> parent]}
            ELSE {})
           \cup (IF n.kind = "msg" THEN Declared(n.nested, n.name)
                 ELSE IF n.kind = "ns" THEN Declared(n.nested, parent)
                 ELSE {})
           : n \in Range(nested)}

\* what the last call's tree declares
DeclaredByCall == Declared(op.content.parsed.root.o.nested, "")
MessageNames == {d.name : d \in {x \in DeclaredByCall : x.kind = "msg"}}
EnumNames == {d.name : d \in {x \in DeclaredByCall : x.kind = "enum"}}
CompositeNames ==
    {d.parent \o "_" \o d.name :
        d \in {x \in DeclaredByCall : x.kind = "enum" /\ x.parent # ""}}

\* the last call classified a tree whose messages and enumerations have names
Classified ==
    /\ op.name = "generatePlantUMLCode"
    /\ op.content.parsed.ok
    /\ \A d \in DeclaredByCall : d.name # ""

\* C13: after classification the known-name set holds the name of every
\* message and enumeration of the tree, at any depth of namespaces and
\* messages, the enumeration-name set holds every enumeration's name and
\* nothing for a message, and an enumeration nested in message P is in both
\* sets under P_<name> too.
C13_KnownNames ==
    Classified =>
        /\ knownTypes = MessageNames \cup EnumNames \cup CompositeNames
        /\ knownEnumTypes = EnumNames \cup CompositeNames

\* the tree with an enumeration two messages deep was classified
C13_Witness ==
    /\ Classified
    /\ "Inner" \in MessageNames
    /\ {"Level", "Inner_Level", "Kind", "Outer_Kind", "Status"} \subseteq knownEnumTypes
    /\ "Outer" \in knownTypes \ knownEnumTypes

-----------------------------------------------------------------------------
(* Resolving a field's type and the edge it leaves                         *)

\* the messages declared in a nested map or below it
RECURSIVE MessagesIn(_)
MessagesIn(nested) ==
    UNION {(IF n.kind = "msg" THEN {n} ELSE {})
           \cup (IF n.kind \in {"msg", "ns"} THEN MessagesIn(n.nested) ELSE {})
           : n \in Range(nested)}

\* the name a raw type stands for inside the message parent: itself if known,
\* else the composite if that is known, else itself
ResolvedName(raw, parent) ==
    IF raw \in knownTypes THEN raw
    ELSE IF (parent \o "_" \o raw) \in knownTypes THEN parent \o "_" \o raw
    ELSE raw

\* source and target of the edges that fields left: the lines of four words
FieldEdgeEnds ==
    {<<w[1], w[4]>> : w \in {v \in {Split(relations[k], " ") : k \in 1..Len(relations)} :
                                Len(v) = 4}}

\* the fields of message m whose resolved type is a known name
LinkingFields(m) ==
    {f \in Range(m.fieldsArray) :
        ~f.reserved /\ ResolvedName(f.type, m.name) \in knownTypes}

\* C14: resolveTypeName returns the raw name if it is known, else the
\* composite parent_raw if that is known, else the raw name; and the edges of
\* a diagram that come from fields are exactly those of the fields whose
\* resolved type is a known name, from the message to that name, so a field
\* of a primitive or external type leaves no edge.
C14_ResolvedEdges ==
    /\ (op.name = "resolveTypeName" /\ op.fieldType # "") =>
          ret = Return(ResolvedName(op.fieldType, op.parentTypeName))
    /\ Generated =>
          FieldEdgeEnds =
              UNION {{<<m.name, ResolvedName(f.type, m.name)>> : f \in LinkingFields(m)}
                        : m \in MessagesIn(TopEntities)}

\* after the diagram of Outer next to Outer_Ref, whose field of type Ref
\* left an edge to the composite, resolveTypeName("Ref", "Outer") was called
C14_Witness ==
    /\ op.name = "resolveTypeName" /\ op.fieldType = "Ref" /\ op.parentTypeName = "Outer"
    /\ ret = Return("Outer_Ref")
    /\ prev.op.name = "generatePlantUMLCode" /\ prev.ret.ok
    /\ <<"Outer", "Outer_Ref">> \in FieldEdgeEnds
    /\ <<"Outer_Ref", "string">> \notin FieldEdgeEnds

-----------------------------------------------------------------------------
(* Well-known types                                                        *)

\* the target of an edge line: its last word
EdgeTarget(line) == Split(line, " ")[Len(Split(line, " "))]

\* C15: in every generated diagram no edge has a name with the well-known
\* prefix google.protobuf. as its target, be it the type of a message field
\* or the request or response type of an RPC.
C15_NoWellKnownEdge ==
    Generated =>
        \A k \in 1..Len(relations) :
            ~StartsWith(EdgeTarget(relations[k]), WELL_KNOWN_TYPE_PREFIX)

-----------------------------------------------------------------------------
(* The field lines of a message                                            *)

\* where the object block of message m opens
ObjectPlaces(m) == {k \in 1..Len(lines) : lines[k] = "object " \o m.name \o " {"}

\* the fields of m that are not reserved, in field order
NonReserved(m) == SelectSeq(m.fieldsArray, LAMBDA f : ~f.reserved)

\* the lines after line k are one field line for each of fields, in order,
\* and then the closing line
FieldLinesAt(k, fields) ==
    /\ k + Len(fields) + 1 <= Len(lines)
    /\ \A j \in 1..Len(fields) :
          /\ StartsWith(lines[k + j],
                        "  " \o InTemplate(toCamelCase(fields[j].name)) \o " : ")
          /\ \E p \in 1..Len(lines[k + j]) :
                SubSeq(lines[k + j], p, p + Len(fields[j].type) - 1) = fields[j].type
    /\ lines[k + Len(fields) + 1] = "}"

\* C16: every message has one object block, and the lines between its
\* opening and its closing line are one field line for each field that is
\* not reserved, in field order; a reserved field has none.
C16_FieldLines ==
    Generated =>
        \A m \in MessagesIn(TopEntities) :
            /\ Cardinality(ObjectPlaces(m)) = 1
            /\ \A k \in ObjectPlaces(m) : FieldLinesAt(k, NonReserved(m))

\* the diagram of Order, which has five fields and a reserved one
C16_Witness ==
    /\ Generated
    /\ \E m \in MessagesIn(TopEntities) :
          /\ m.name = "Order"
          /\ Len(NonReserved(m)) = 5 /\ Len(m.fieldsArray) = 6
          /\ ObjectPlaces(m) # {}

-----------------------------------------------------------------------------
(* toCamelCase                                                             *)

CamelCased == op.name = "toCamelCase"

\* the characters of a name, one by one
CharsOf(str) == {CharAt(str, p) : p \in 1..Len(str)}

\* lowercase letters and digits, with underscores that each stand before a
\* lowercase letter
SnakeCase(str) ==
    /\ \A p \in 1..Len(str) :
          \/ IndexOf(LowerCase, CharAt(str, p)) > 0
          \/ IndexOf(Digits, CharAt(str, p)) > 0
          \/ /\ CharAt(str, p) = "_"
             /\ p < Len(str)
             /\ IndexOf(LowerCase, CharAt(str, p + 1)) > 0
    /\ "_" \in CharsOf(str)

\* a word with its first letter in upper case
Capitalised(word) == ToUpperCase(CharAt(word, 1)) \o SubSeq(word, 2, Len(word))

\* the words of a snake_case name put together, each but the first capitalised
CamelOfWords(words) ==
    Join([k \in 1..Len(words) |-> IF k = 1 THEN words[k] ELSE Capitalised(words[k])], "")

\* C17: toCamelCase of a result of toCamelCase is that result; a name
\* without an underscore, the empty one included, comes back as it is; a
\* snake_case name comes back without its underscores and with the lowercase
\* letter after each underscore in upper case.
C17_CamelCase ==
    CamelCased =>
        /\ (prev.op.name = "toCamelCase" => op.str = prev.ret.v /\ ret.v = op.str)
        /\ ("_" \notin CharsOf(op.str) => ret.v = op.str)
        /\ (SnakeCase(op.str) =>
               /\ ret.v = CamelOfWords(Split(op.str, "_"))
               /\ "_" \notin CharsOf(ret.v))

\* the second call, on the result for a snake_case name of two underscores
C17_Witness ==
    /\ CamelCased
    /\ prev.op.name = "toCamelCase"
    /\ SnakeCase(prev.op.str)
    /\ prev.op.str # op.str
    /\ Len(prev.op.str) = Len(op.str) + 2

-----------------------------------------------------------------------------
(* The notes of oneof groups                                               *)

\* where a note of message m opens
NotePlaces(m) == {k \in 1..Len(lines) : lines[k] = "note right of " \o m.name}

\* the oneof groups of m with two members or more, in the order declared
MultiMember(m) == SelectSeq(m.oneofs, LAMBDA o : Len(o.fieldsArray) > 1)

\* the names of the fields of m that are part of group o, camelCased, in
\* field order
MemberNames(m, o) ==
    LET members == SelectSeq(m.fieldsArray, LAMBDA f : f.partOf = o.name)
    IN  [k \in 1..Len(members) |-> toCamelCase(members[k].name)]

\* the three lines from line k on are the note of group o of message m
NoteAt(k, m, o) ==
    /\ k + 2 <= Len(lines)
    /\ lines[k] = "note right of " \o m.name
    /\ lines[k + 1] = "  Only one of " \o Join(MemberNames(m, o), " or ") \o " is set"
    /\ lines[k + 2] = "end note"

\* the notes of the groups, one after the other, follow the line at close
NotesAfter(close, m, groups) ==
    \A j \in 1..Len(groups) : NoteAt(close + 3 * (j - 1) + 1, m, groups[j])

\* C18: a message has one note for each of its oneof groups of two members
\* or more and none for a group of one member; the notes follow the closing
\* line of the message's object block, one per group, and each names the
\* members of its group, camelCased, in field order, joined by " or ".
C18_OneofNotes ==
    Generated =>
        \A m \in MessagesIn(TopEntities) :
            /\ Cardinality(NotePlaces(m)) = Len(MultiMember(m))
            /\ \A k \in ObjectPlaces(m) :
                  NotesAfter(k + Len(NonReserved(m)) + 1, m, MultiMember(m))

\* the diagram of Choice: three groups, two notes
C18_Witness ==
    /\ Generated
    /\ \E m \in MessagesIn(TopEntities) :
          /\ m.name = "Choice"
          /\ Len(m.oneofs) = 3
          /\ Cardinality(NotePlaces(m)) = 2
          /\ \E k \in 1..Len(lines) :
                lines[k] = "  Only one of firstWay or secondWay or thirdWay is set"

-----------------------------------------------------------------------------
(* The grouping of a message with its nested enumerations                  *)

\* the enumerations message m declares itself
DirectEnums(m) == SelectSeq(m.nested, LAMBDA n : n.kind = "enum")

ComponentLine(m) == "component \"" \o m.name \o " Types\" {"

\* where the grouping of message m opens
ComponentPlaces(m) == {k \in 1..Len(lines) : lines[k] = ComponentLine(m)}

\* where the block of an enumeration of that name opens
EnumPlaces(name) == {k \in 1..Len(lines) : lines[k] = "enum " \o name \o " {"}

\* how many blocks are open after line k
DepthAfter(k) ==
    Cardinality({j \in 1..k : EndsWith(lines[j], "{")})
        - Cardinality({j \in 1..k : lines[j] = "}"})

\* line p lies inside the block that opens at line k
Inside(k, p) == k < p /\ \A j \in k..p : DepthAfter(j) > DepthAfter(k - 1)

\* the block that opens at line k is closed
Closed(k) == \E e \in (k + 1)..Len(lines) : DepthAfter(e) = DepthAfter(k - 1)

\* the ends of the edges: <<source, target>>
EdgeEnds ==
    {<<Split(relations[k], " ")[1], EdgeTarget(relations[k])>> : k \in 1..Len(relations)}

\* the grouping at line k holds the object block of m and the block of each
\* of its enumerations, under the bare name
GroupingAt(k, m) ==
    /\ Closed(k)
    /\ ObjectPlaces(m) # {}
    /\ \A p \in ObjectPlaces(m) : Inside(k, p)
    /\ \A n \in Range(DirectEnums(m)) :
          /\ \E p \in EnumPlaces(n.name) : Inside(k, p)
          /\ EnumPlaces(m.name \o "_" \o n.name) = {}
          /\ \A e \in EdgeEnds : e[2] # m.name \o "_" \o n.name
          /\ \A f \in Range(NonReserved(m)) :
                f.type = n.name => <<m.name, n.name>> \in EdgeEnds

\* C19: a message that declares an enumeration has exactly one grouping
\* 'component "<Message> Types" {', which encloses its object block and the
\* block of each enumeration it declares; those blocks and the edges to them
\* carry the bare name of the enumeration, never Parent_Enum; a message
\* that declares no enumeration has no grouping.
C19_ComponentGrouping ==
    Generated =>
        /\ \A m \in MessagesIn(TopEntities) :
              IF DirectEnums(m) = <<>>
              THEN ComponentPlaces(m) = {}
              ELSE /\ Cardinality(ComponentPlaces(m)) = 1
                   /\ \A k \in ComponentPlaces(m) : GroupingAt(k, m)
        /\ Cardinality({k \in 1..Len(lines) : StartsWith(lines[k], "component ")})
              = Cardinality({m \in MessagesIn(TopEntities) : DirectEnums(m) # <<>>})

\* the diagram of Holder, which has no grouping, and of Part inside it,
\* which has one around its enumeration Grade
C19_Witness ==
    /\ Generated
    /\ \E m \in MessagesIn(TopEntities) :
          /\ m.name = "Holder" /\ m.nested # <<>> /\ ComponentPlaces(m) = {}
    /\ \E m \in MessagesIn(TopEntities) :
          /\ m.name = "Part"
          /\ \E k \in ComponentPlaces(m) : \E p \in EnumPlaces("Grade") : Inside(k, p)
          /\ <<"Part", "Grade">> \in EdgeEnds

-----------------------------------------------------------------------------
(* Package paths of one or two segments                                    *)

\* the package path of the last call
PackagePath == op.content.parsed.package

\* the last call generated a diagram for a package path of one or two segments
ShortPath ==
    /\ Generated
    /\ PackagePath.t = "string"
    /\ Trim(PackagePath.v) # ""
    /\ Len(Split(PackagePath.v, ".")) <= 2

\* the namespaces of a tree: the namespace itself and those below it
RECURSIVE NamespacesIn(_)
NamespacesIn(ns) ==
    {ns} \cup UNION {NamespacesIn(ns.nested[k]) :
                        k \in {j \in 1..Len(ns.nested) : ns.nested[j].kind = "ns"}}

\* the namespace levels of the last call's tree that hold a message, an
\* enumeration or a service
ContentLevels ==
    Cardinality({ns \in NamespacesIn(op.content.parsed.root.o) :
                    \E n \in Range(ns.nested) : n.kind \in {"msg", "enum", "svc"}})

\* the last segment of the path, in lower case, is one of the meaningful names
MeaningfulLast ==
    ToLowerCase(Split(PackagePath.v, ".")[Len(Split(PackagePath.v, "."))])
        \in {"api", "service", "event", "model", "dto", "proto", "message",
             "client", "server"}

\* the lines that open a package wrapper
PackageLines == {lines[k] : k \in {j \in 1..Len(lines) : StartsWith(lines[j], "package ")}}

\* C20 as stated: a diagram for a package path of at most two segments has
\* no package wrapper line, whatever the last segment and the number of
\* levels with content.
C20_ShortPathsNeverWrap == ShortPath => PackageLines = {}

\* C20: a diagram for a package path of at most two segments has no package
\* wrapper line when the last segment is not a meaningful name and at most
\* one namespace level holds content; otherwise it has the wrapper line of
\* the full path, and no other.
C20_ShortPaths ==
    ShortPath =>
        PackageLines = IF MeaningfulLast \/ ContentLevels > 1
                       THEN {"package \"" \o PackagePath.v \o "\" {"}
                       ELSE {}

\* the diagram of com.shop with one level of content: no wrapper line
C20_Witness ==
    /\ ShortPath
    /\ Len(Split(PackagePath.v, ".")) = 2
    /\ ~MeaningfulLast
    /\ ContentLevels = 1
    /\ PackageLines = {}
    /\ \E k \in 1..Len(lines) : lines[k] = "object User {"

-----------------------------------------------------------------------------
(* The display name of the package wrapper                                 *)

\* analyzePackageStructure decided for a wrapper
WrapperDecided == op.name = "analyzePackageStructure" /\ ret.o.shouldUsePackage

\* the segments of the path of the last layout call
Segments == Split(op.packageName, ".")

\* the last n segments, joined by dots
Trailing(n) == Join(SubSeq(Segments, Len(Segments) - n + 1, Len(Segments)), ".")

\* the last segment, in lower case, is one of the nine meaningful names
MeaningfulSuffix ==
    ToLowerCase(Segments[Len(Segments)])
        \in {"api", "service", "event", "model", "dto", "proto", "message",
             "client", "server"}

\* C21: when a wrapper is used its name is the full path for a path of at
\* most 6 segments, the last 4 segments for a longer path with a meaningful
\* last segment, first...last three for another path of more than 8
\* segments, and the full path otherwise.
C21_DisplayName ==
    WrapperDecided =>
        ret.o.displayName =
            IF Len(Segments) <= 6 THEN op.packageName
            ELSE IF MeaningfulSuffix THEN Trailing(4)
            ELSE IF Len(Segments) > 8 THEN Segments[1] \o "..." \o Trailing(3)
            ELSE op.packageName

-----------------------------------------------------------------------------
(* The block and the edges of a service                                    *)

\* the services of the tree of the last call
ServicesIn(root) ==
    UNION {{n \in Range(ns.nested) : n.kind = "svc"} : ns \in NamespacesIn(root)}

\* where the block of service s opens (the generator's keyword for a service
\* block is stereotype)
ServicePlaces(s) == {k \in 1..Len(lines) : lines[k] = "stereotype " \o s.name \o " {"}

\* a type as the diagram names it: a missing one is Unknown
Named(typeName) == IF typeName = "" THEN "Unknown" ELSE typeName

\* the lines after line k are one line per RPC of s, in order, and then the
\* closing line
RpcLinesAt(k, s) ==
    /\ k + Len(s.methods) + 1 <= Len(lines)
    /\ \A j \in 1..Len(s.methods) :
          lines[k + j] = "  " \o s.methods[j].name \o "(" \o Named(s.methods[j].requestType)
                              \o ") : " \o Named(s.methods[j].responseType)
    /\ lines[k + Len(s.methods) + 1] = "}"

\* the edge from service s to a type is in the edge list, and in the
\* diagram, exactly once
OneEdge(s, typeName) ==
    /\ Cardinality({k \in 1..Len(relations) :
                       relations[k] = s.name \o " --> " \o Named(typeName)}) = 1
    /\ Cardinality({k \in 1..Len(lines) :
                       lines[k] = s.name \o " --> " \o Named(typeName)}) = 1

\* C22: every service has one block, with one line name(requestType) :
\* responseType per RPC in RPC order, and for every RPC the reference edges
\* from the service to the request type and to the response type are in the
\* edge list exactly once, also when RPCs share a type.
C22_ServiceBlock ==
    Generated =>
        \A s \in ServicesIn(op.content.parsed.root.o) :
            /\ Cardinality(ServicePlaces(s)) = 1
            /\ \A k \in ServicePlaces(s) : RpcLinesAt(k, s)
            /\ \A m \in Range(s.methods) :
                  OneEdge(s, m.requestType) /\ OneEdge(s, m.responseType)

\* the diagram of UserService, whose RPCs GetUser and ListUsers share User
C22_Witness ==
    /\ Generated
    /\ \E s \in ServicesIn(op.content.parsed.root.o) :
          /\ s.name = "UserService"
          /\ Len(s.methods) = 3
          /\ ServicePlaces(s) # {}
          /\ OneEdge(s, "User")
          /\ s.methods[1].requestType = "User" /\ s.methods[1].responseType = "User"
          /\ s.methods[2].responseType = "User"

-----------------------------------------------------------------------------
(* The failures of generatePlantUMLCode                                    *)

GenerateCall == op.name = "generatePlantUMLCode"

GeneratePrefix == "Failed to generate PlantUML code: "

\* content that is not a string, is blank, or that the parser is not given
\* or does not parse
Unusable(c) ==
    \/ c.protoContent.t # "string"
    \/ Trim(c.protoContent.v) = ""
    \/ ~c.parsed.ok

\* what the first throw of the call says, for content c
Underlying(c) ==
    IF c.protoContent.t \in {"null", "undefined"}
    THEN {"Proto content cannot be null or undefined"}
    ELSE IF c.protoContent.t # "string"
    THEN {"Proto content must be a string, received " \o c.protoContent.t}
    ELSE IF Trim(c.protoContent.v) = ""
    THEN {"Proto content cannot be empty or contain only whitespace"}
    ELSE IF ~c.parsed.ok /\ c.parsed.message = ""
    THEN {"Proto content does not appear to contain valid protobuf syntax"}
    ELSE IF ~c.parsed.ok
    THEN {"Failed to parse protobuf content: " \o c.parsed.message}
    ELSE {"Field bad has no type defined", "Enum at key 'Lost' has no name"}

\* C23: a call of generatePlantUMLCode with unusable content fails, and
\* every failure of a call is a thrown error whose message starts with
\* 'Failed to generate PlantUML code' and ends with the message of the error
\* underneath; a call that fails returns no text.
C23_FailuresWrapped ==
    GenerateCall =>
        /\ (Unusable(op.content) => ~ret.ok)
        /\ (~ret.ok =>
               /\ StartsWith(ret.message, GeneratePrefix)
               /\ \E u \in Underlying(op.content) : EndsWith(ret.message, u)
               /\ "v" \notin DOMAIN ret)
        /\ (ret.ok => StartsWith(ret.v, "@startuml"))

\* a failure raised while the diagram of a parsed tree is emitted
C23_Witness ==
    /\ GenerateCall
    /\ ~ret.ok
    /\ op.content.parsed.ok
    /\ EndsWith(ret.message, "Field bad has no type defined")
    /\ ret.message # GeneratePrefix \o "Field bad has no type defined"

-----------------------------------------------------------------------------
(* The options of generateDiagramUrl                                       *)

DiagramCall == op.name = "generateDiagramUrl"

\* the call's options are an object that has the key plantumlEndpoint
HasEndpoint == op.options.t = "object" /\ "plantumlEndpoint" \in op.options.o.keys

\* the endpoint of the call's options is a string that is not empty
GoodEndpoint ==
    /\ op.options.o.plantumlEndpoint.t = "string"
    /\ op.options.o.plantumlEndpoint.v # ""

\* the schema of the call is one a diagram is generated for
GoodContent == op.content.parsed.ok

\* C24: generateDiagramUrl rejects with 'PlantUML endpoint must be a valid
\* URL string' when the options of the call have a plantumlEndpoint that is
\* not a string or is empty, and with 'Options must be an object or null'
\* when they are neither an object nor null; with a plantumlEndpoint that
\* is a string and not empty the imageUrl returned starts with it, whatever
\* the endpoint of the instance.
C24_CallOptions ==
    (DiagramCall /\ GoodContent) =>
        /\ (op.options.t \notin {"object", "null", "undefined"} =>
               ~ret.ok /\ ret.message = "Options must be an object or null")
        /\ (HasEndpoint /\ ~GoodEndpoint =>
               ~ret.ok /\ EndsWith(ret.message, "PlantUML endpoint must be a valid URL string"))
        /\ (HasEndpoint /\ GoodEndpoint =>
               ret.ok /\ StartsWith(ret.o.imageUrl, op.options.o.plantumlEndpoint.v))

-----------------------------------------------------------------------------
(* A package that declares nothing                                         *)

\* the last call generated a diagram for a schema that declares a package
\* and no message, enumeration or service
PackageOnly ==
    /\ Generated
    /\ PackagePath.t = "string"
    /\ Trim(PackagePath.v) # ""
    /\ ContentLevels = 0

\* C25: the diagram of a schema that declares a package and no message,
\* enumeration or service has no package wrapper line, whatever the path;
\* it is the start marker, the header lines and the end marker.
C25_EmptyPackage ==
    PackageOnly =>
        /\ PackageLines = {}
        /\ lines = <<"@startuml", "!pragma useIntermediatePackages false",
                     "skinparam componentStyle rectangle", "@enduml">>

-----------------------------------------------------------------------------
(* The content namespace                                                   *)

\* the namespaces on the package path of the tree, from the root down:
\* each the only namespace child of the one before
RECURSIVE PathNamespaces(_)
PathNamespaces(ns) ==
    <<ns>> \o (IF \E k \in 1..Len(ns.nested) : ns.nested[k].kind = "ns"
               THEN PathNamespaces(
                        ns.nested[CHOOSE k \in 1..Len(ns.nested) : ns.nested[k].kind = "ns"])
               ELSE <<>>)

\* a message, an enumeration or a service is declared in ns itself
DeclaresEntity(ns) == \E n \in Range(ns.nested) : n.kind \in {"msg", "enum", "svc"}

\* the places on the path whose namespace declares an entity
ContentPlaces(path) == {k \in 1..Len(path) : DeclaresEntity(path[k])}

\* the deepest namespace on the package path that declares an entity
DeepestContent(root) ==
    LET path == SubSeq(PathNamespaces(root), 1, Len(Split(op.packageName, ".")) + 1)
    IN  path[CHOOSE k \in ContentPlaces(path) : \A j \in ContentPlaces(path) : j <= k]

\* a layout call on a tree whose package path leads to entities
ContentBelow ==
    /\ op.name \in {"findContentNamespace", "analyzePackageStructure"}
    /\ ContentPlaces(SubSeq(PathNamespaces(op.root), 1,
                            Len(Split(op.packageName, ".")) + 1)) # {}

\* C26: findContentNamespace(root) returns the deepest namespace on the
\* package path that declares a message, an enumeration or a service, and
\* analyzePackageStructure reports that namespace as targetNamespace.
C26_ContentNamespace ==
    ContentBelow =>
        IF op.name = "findContentNamespace"
        THEN ret.o = DeepestContent(op.root)
        ELSE ret.o.targetNamespace = DeepestContent(op.root)

-----------------------------------------------------------------------------
(* The order of the blocks                                                 *)

\* the line that opens the block of an entity
BlockLine(n) ==
    IF n.kind = "msg" THEN "object " \o n.name \o " {"
    ELSE IF n.kind = "enum" THEN "enum " \o n.name \o " {"
    ELSE "stereotype " \o n.name \o " {"

\* the opening lines of the blocks of the entities declared in nested from
\* entry k on, in declaration order: an entity, then what is declared in it
RECURSIVE BlocksFrom(_, _)
BlocksFrom(nested, k) ==
    IF k > Len(nested) THEN <<>>
    ELSE (IF nested[k].kind \in {"msg", "enum", "svc"} THEN <<BlockLine(nested[k])>> ELSE <<>>)
         \o (IF nested[k].kind \in {"msg", "ns"} THEN BlocksFrom(nested[k].nested, 1) ELSE <<>>)
         \o BlocksFrom(nested, k + 1)

\* the lines of the diagram that open the block of an entity, in order
BlockLines ==
    SelectSeq(lines, LAMBDA l : \/ StartsWith(l, "object ")
                                \/ StartsWith(l, "enum ")
                                \/ StartsWith(l, "stereotype "))

\* C27: every message, enumeration and service of the tree has exactly one
\* block in the diagram and the blocks stand in the declaration order of the
\* entities, with and without a package wrapper.
C27_DeclarationOrder ==
    Generated => BlockLines = BlocksFrom(TopEntities, 1)


-----------------------------------------------------------------------------
(* C28: termination on every finite tree                                   *)

WalkCall == op.name = "generatePlantUMLCode" /\ "visits" \in DOMAIN op

\* the call has ended, by returning the text or by throwing
WalkEnded == WalkCall /\ ~Walking /\ (ret.ok => ret.v # "")

\* what generatePlantUMLCode, taken as one step, makes of the call's tree
WalkWhole ==
    generatePlantUMLCode(Str(ValidText), Parsed(Obj(op.root), op.packageName),
                         ParserState(knownTypes, knownEnumTypes),
                         GeneratorState(lines, relations, relationSet))

\* the walk ends where the recursion ends
WalkAgrees ==
    WalkEnded =>
        /\ WalkWhole.ps.kt = knownTypes
        /\ WalkWhole.ps.ket = knownEnumTypes
        /\ WalkWhole.gs.lines = lines
        /\ WalkWhole.gs.relations = relations
        /\ WalkWhole.ret = ret

\* the diagram of the call has no package block: the second pass went
\* through processNamespace
WalkNested == \A k \in 1..Len(lines) : ~StartsWith(lines[k], "package \"")

\* no enum and no service of the tree holds entries of its own
RECURSIVE NestingOnly(_)
NestingOnly(nested) ==
    \A k \in 1..Len(nested) :
        IF nested[k].kind \in {"enum", "svc", "null"} THEN nested[k].nested = <<>>
        ELSE NestingOnly(nested[k].nested)

\* a message with a field of its own type, or two that name each other
RefersBack(root) ==
    \E m \in MessagesIn(root.nested) : \E k \in 1..Len(m.fieldsArray) :
        \/ m.fieldsArray[k].type = m.name
        \/ \E n \in MessagesIn(root.nested) :
              /\ n.name = m.fieldsArray[k].type
              /\ \E j \in 1..Len(n.fieldsArray) : n.fieldsArray[j].type = m.name


-----------------------------------------------------------------------------
(* C29: the three ways the encoder is written                              *)

\* encode64 of a call of encode of plantumlEncoder.ts, whose r, i, c1..c4
\* are new with every call
encode64Closure(data) ==
    encode64(data, EncoderState("", 0, UndefinedNumber, UndefinedNumber,
                                UndefinedNumber, UndefinedNumber)).r

\* C29: for every byte string, encode64 on the module's variables, whatever
\* earlier calls left in them, returns what encode64 on the variables of a
\* new call of encode returns and what the variant with local variables
\* returns, four characters for each group of up to three bytes; and encode,
\* where pako works, returns what the local variant makes of the bytes the
\* compressor returned.
C29_VariantsAgree ==
    /\ op.name = "encode64" =>
          /\ ret.ok
          /\ ret.v = encode64Local(op.data)
          /\ ret.v = encode64Closure(op.data)
          /\ Len(ret.v) = 4 * ((Len(op.data) + 2) \div 3)
    /\ (op.name = "encode" /\ ret.ok) => ret.v = encode64Local(op.env.deflated)

\* a second call, of two bytes, after one of four bytes left its last group
\* in r and c1..c4
C29_Witness ==
    /\ op.name = "encode64"
    /\ op.data = <<255, 75>>
    /\ prev.op.name = "encode64"
    /\ prev.op.data = <<75, 255, 0, 255>>
    /\ prev.ret = Return("I_y0_m00")
    /\ ret = Return(encode64Local(<<255, 75>>))
    /\ Len(ret.v) = 4


-----------------------------------------------------------------------------
(* C30: the blocks of a diagram                                            *)

\* the lines that open a block, by the keyword they begin with
OpeningKeywords == {"package ", "component ", "object ", "enum ", "stereotype "}

OpeningPlaces == {k \in 1..Len(lines) : EndsWith(lines[k], "{")}
ClosingPlaces == {k \in 1..Len(lines) : lines[k] = "}"}

\* C30: in every diagram generateFromRoot returns, the lines that end in "{"
\* are package, component, object, enum and service lines; reading the lines
\* in order, there are never more closing lines than opening lines, and at
\* the end marker there are as many of the one as of the other.
C30_BalancedBlocks ==
    Generated =>
        /\ ret.v = Join(lines, "\n")
        /\ lines[Len(lines)] = "@enduml"
        /\ \A k \in OpeningPlaces : \E w \in OpeningKeywords : StartsWith(lines[k], w)
        /\ \A k \in 1..Len(lines) : DepthAfter(k) >= 0
        /\ DepthAfter(Len(lines)) = 0

\* a diagram with a package block around a component that holds an object
\* and an enumeration, three blocks deep, and a message whose nested types are
\* messages only
C30_Witness ==
    /\ Generated
    /\ Wrapped
    /\ \E k \in 1..Len(lines) : DepthAfter(k) >= 3
    /\ \E m \in MessagesIn(TopEntities) :
          m.nested # <<>> /\ ~HasNestedTypes(m) /\ MessagesIn(m.nested) # {}
    /\ Cardinality(ClosingPlaces) >= 5
    /\ DepthAfter(Len(lines)) = 0

=============================================================================
